---- MODULE Spec2Model ----
(***************************************************************************)
(* TLA+ model of the AI news digest bot: the relevance scorer              *)
(* (multi_source_ai_digest.py), the article store (database.py), the       *)
(* discovery and ranking step, and the orchestrator (main.py).             *)
(*                                                                         *)
(* Python str values are TLA+ strings; Len, \o and SubSeq act on them      *)
(* character by character, so substring matching, lower-casing and URL     *)
(* splitting are computed on the actual text.                              *)
(***************************************************************************)
EXTENDS Integers, Sequences, FiniteSets, TLC

(***************************************************************************)
(* Bounds of the model.                                                    *)
(***************************************************************************)
\* number of scorer calls one behaviour of SpecScore records
MaxCalls == 2

\* the calendar years the clock (datetime.now().year) passes through
Years == 2025 .. 2027

\* number of NewsDatabase calls one behaviour of SpecStore makes
MaxStoreCalls == 4

\* the days the clock passes through, all of the first of Years
Days == 1 .. 2

\* number of invocations (collection passes, digests) one behaviour starts
MaxRuns == 2

\* number of candidates the passes of fetch_all_ai_sources of one behaviour collect
MaxCandidates == 2

VARIABLES
    year,               \* datetime.now().year, the clock read by the scorer
    in_url,             \* SpecScore: the article_url argument under study
    in_title,           \* SpecScore: the title argument under study
    calls,              \* SpecScore: the completed calls, in call order
    sum_calls,          \* SpecSummarize: the completed summarize_article calls
    scheduler,          \* SpecScheduler: the loop of run_scheduler, its clock, the job's
                        \* next_run and the invocations of run_daily_job in progress
    articles,           \* table articles: the rows in rowid order
    next_id,            \* table articles: the next AUTOINCREMENT id
    digest_posts,       \* table digest_posts: the rows in rowid order
    source_stats,       \* table source_stats: the rows in rowid order
    last_call,          \* the last call of a NewsDatabase method: its arguments, its result,
                        \* and the articles table before it
    first_id,           \* history: url -> the id add_article returned when it inserted the url
    summary_updates,    \* history: article id -> the invocations (values of runs) that called
                        \* update_article_summary on it, one entry per call
    today,              \* datetime.now() as a day number
    pc,                 \* where the running invocation is: "idle", "fetch", "process"
    job,                \* what runs: "none", "collect", "digest_script"
    src_idx,            \* fetch_all_ai_sources: index of the next source to fetch
    all_articles,       \* fetch_all_ai_sources: the (source, url, title) collected so far
    fetch_log,          \* fetch_all_ai_sources: what each source of this call gave, in loop order
    idx,                \* collect_and_process_articles: index of the next candidate
    limit_per_source,   \* collect_and_process_articles: its argument
    processed_by_source,\* collect_and_process_articles: source -> candidates processed
    new_articles_count, \* collect_and_process_articles: the count it returns
    runs,               \* number of invocations started
    fetched,            \* number of candidates fetch_all_ai_sources returned so far
    top_n,              \* create_comprehensive_ai_digest: its argument
    top_articles,       \* create_comprehensive_ai_digest: the ranked selection it returned
    last_ranking,       \* the last create_comprehensive_ai_digest call that fetched all
                        \* sources: its scored_articles list, its top_n, whether it raised
    channel,            \* the messages the Telegram channel accepted, in order
    last_digest         \* the last create_daily_digest call: its date, its result, the
                        \* digest_posts table before it, and what became of its send

scorer_vars == <<in_url, in_title, calls>>
summarizer_vars == <<sum_calls>>
scheduler_vars == <<scheduler>>
store_vars == <<articles, next_id, digest_posts, source_stats>>
history_vars == <<last_call, first_id, summary_updates>>
run_vars == <<pc, job, src_idx, all_articles, fetch_log, idx, limit_per_source, processed_by_source,
              new_articles_count, runs, fetched, top_n, top_articles, last_ranking>>
publish_vars == <<channel, last_digest>>

vars == <<year, today, scorer_vars, summarizer_vars, scheduler_vars, store_vars, history_vars, run_vars, publish_vars>>

(***************************************************************************)
(* Python str operations.                                                  *)
(***************************************************************************)
\* s[i] (1-based)
CharAt(s, i) == SubSeq(s, i, i)

\* s[i:] with i 1-based
From(s, i) == SubSeq(s, i, Len(s))

\* s.startswith(p)
StartsWith(s, p) == Len(p) <= Len(s) /\ SubSeq(s, 1, Len(p)) = p

\* s.find(k, start): the first position >= start where k occurs, 0 if none
Find(s, k, start) ==
    LET hits == {i \in start .. (Len(s) - Len(k) + 1) : SubSeq(s, i, i + Len(k) - 1) = k}
    IN  IF hits = {} THEN 0 ELSE CHOOSE i \in hits : \A j \in hits : i <= j

\* k in s
Contains(s, k) == \E i \in 1 .. (Len(s) - Len(k) + 1) : SubSeq(s, i, i + Len(k) - 1) = k

upper_to_lower ==
    [A |-> "a", B |-> "b", C |-> "c", D |-> "d", E |-> "e", F |-> "f", G |-> "g",
     H |-> "h", I |-> "i", J |-> "j", K |-> "k", L |-> "l", M |-> "m", N |-> "n",
     O |-> "o", P |-> "p", Q |-> "q", R |-> "r", S |-> "s", T |-> "t", U |-> "u",
     V |-> "v", W |-> "w", X |-> "x", Y |-> "y", Z |-> "z"]

\* c.lower() for one character
LowerChar(c) == IF c \in DOMAIN upper_to_lower THEN upper_to_lower[c] ELSE c

\* s.lower(): every character lower-cased (the string is split in halves to keep the
\* evaluation shallow)
RECURSIVE Lower(_)
Lower(s) ==
    IF Len(s) = 0 THEN ""
    ELSE IF Len(s) = 1 THEN LowerChar(s)
    ELSE LET half == Len(s) \div 2
         IN  Lower(SubSeq(s, 1, half)) \o Lower(SubSeq(s, half + 1, Len(s)))

\* str(n) for n >= 0
RECURSIVE Str(_)
Str(n) ==
    IF n < 10 THEN CharAt("0123456789", n + 1)
    ELSE Str(n \div 10) \o CharAt("0123456789", (n % 10) + 1)

\* every character of s is one of the characters of chars
AllIn(s, chars) == \A i \in 1 .. Len(s) : Contains(chars, CharAt(s, i))

(***************************************************************************)
(* urllib.parse.urlparse(url).netloc, as called by the scorer.             *)
(***************************************************************************)
scheme_chars == "abcdefghijklmnopqrstuvwxyzABCDEFGHIJKLMNOPQRSTUVWXYZ0123456789+-."
ascii_letters == "abcdefghijklmnopqrstuvwxyzABCDEFGHIJKLMNOPQRSTUVWXYZ"

\* url.lstrip(" ")
RECURSIVE LStrip(_)
LStrip(s) == IF s # "" /\ CharAt(s, 1) = " " THEN LStrip(From(s, 2)) ELSE s

\* the url with its "scheme:" removed, when the text before the first colon is a scheme
AfterScheme(url) ==
    LET i == Find(url, ":", 1)
    IN  IF i > 1 /\ Contains(ascii_letters, CharAt(url, 1)) /\ AllIn(SubSeq(url, 1, i - 1), scheme_chars)
        THEN From(url, i + 1)
        ELSE url

\* _splitnetloc(rest, 2)[0]: from after "//" to the first of "/", "?", "#"
SplitNetloc(rest) ==
    LET ends == {Find(rest, d, 3) : d \in {"/", "?", "#"}} \ {0}
        delim == IF ends = {} THEN Len(rest) + 1 ELSE CHOOSE i \in ends : \A j \in ends : i <= j
    IN  SubSeq(rest, 3, delim - 1)

\* netloc of the url ("" when the url has no "//" authority)
Netloc(url) ==
    LET rest == AfterScheme(LStrip(url))
    IN  IF StartsWith(rest, "//") THEN SplitNetloc(rest) ELSE ""

\* ipaddress accepts h as an IPv6 literal (hexadecimal groups and colons)
IsIPv6Literal(h) == AllIn(h, "0123456789abcdefABCDEF:") /\ Contains(h, ":")

\* netloc.partition('[')[2].partition(']')[0]
BracketedHost(netloc) ==
    LET after == From(netloc, Find(netloc, "[", 1) + 1)
        close == Find(after, "]", 1)
    IN  IF close = 0 THEN after ELSE SubSeq(after, 1, close - 1)

\* urlparse raises ValueError on this url
UrlparseRaises(url) ==
    LET netloc == Netloc(url)
        open   == Contains(netloc, "[")
        close  == Contains(netloc, "]")
    IN  \/ open /\ ~close
        \/ close /\ ~open
        \/ open /\ close /\ ~IsIPv6Literal(BracketedHost(netloc))

(***************************************************************************)
(* calculate_relevance_score: the weight tables, in dict insertion order.  *)
(***************************************************************************)
high_value_keywords ==
    << <<"openai", 20>>, <<"chatgpt", 20>>, <<"gpt", 15>>, <<"claude", 15>>,
       <<"gemini", 15>>, <<"llm", 12>>, <<"transformer", 12>>, <<"neural", 10>>,
       <<"breakthrough", 15>>, <<"launch", 10>>, <<"release", 8>>, <<"announces", 8>> >>

medium_value_keywords ==
    << <<"artificial-intelligence", 10>>, <<"machine-learning", 10>>, <<"deep-learning", 10>>,
       <<"automation", 8>>, <<"robot", 8>>, <<"algorithm", 6>>, <<"data", 4>>,
       <<"startup", 5>>, <<"funding", 6>>, <<"investment", 6>>, <<"acquisition", 8>> >>

ai_companies ==
    << <<"google", 10>>, <<"microsoft", 10>>, <<"amazon", 8>>, <<"meta", 8>>, <<"facebook", 8>>,
       <<"nvidia", 12>>, <<"anthropic", 15>>, <<"mistral", 12>>, <<"huggingface", 10>>,
       <<"tesla", 8>>, <<"apple", 8>>, <<"samsung", 6>>, <<"intel", 6>> >>

tech_terms ==
    << <<"model", 4>>, <<"training", 5>>, <<"dataset", 4>>, <<"performance", 4>>,
       <<"research", 5>>, <<"paper", 4>>, <<"study", 4>>, <<"experiment", 4>> >>

source_bonus ==
    << <<"techcrunch.com", 8>>, <<"wired.com", 10>>, <<"theverge.com", 8>>,
       <<"venturebeat.com", 7>>, <<"technologyreview.com", 12>>, <<"arstechnica.com", 9>>,
       <<"zdnet.com", 6>>, <<"forbes.com", 7>>, <<"bloomberg.com", 10>> >>

\* breakdown[label] = points
Put(d, k, v) == [x \in (DOMAIN d) \cup {k} |-> IF x = k THEN v ELSE d[x]]

\* score += points; breakdown[label] = points
Award(acc, label, points) ==
    [score |-> acc.score + points, breakdown |-> Put(acc.breakdown, label, points)]

\* mutant: the breakdown label leaves the keyword out, so matches of one table overwrite each other
RECURSIVE ScanKeywords_category_label(_, _, _, _, _)
ScanKeywords_category_label(table, category, content, i, acc) ==
    IF i > Len(table) THEN acc
    ELSE ScanKeywords_category_label(table, category, content, i + 1,
             IF Contains(content, table[i][1])
             THEN Award(acc, category, table[i][2])
             ELSE acc)

\* mutant: the loop leaves the table at its first match, as the loop over source_bonus does
RECURSIVE ScanKeywords_break(_, _, _, _, _)
ScanKeywords_break(table, category, content, i, acc) ==
    IF i > Len(table) THEN acc
    ELSE IF Contains(content, table[i][1])
         THEN Award(acc, category \o ": " \o table[i][1], table[i][2])
         ELSE ScanKeywords_break(table, category, content, i + 1, acc)

\* for keyword, points in table.items(): if keyword in content_to_analyze: ...
RECURSIVE ScanKeywords(_, _, _, _, _)
ScanKeywords(table, category, content, i, acc) ==
    IF i > Len(table) THEN acc
    ELSE ScanKeywords(table, category, content, i + 1,
             IF Contains(content, table[i][1])
             THEN Award(acc, category \o ": " \o table[i][1], table[i][2])
             ELSE acc)

\* mutant: "if" in place of "elif", both bonuses can be awarded
RecencyBonus_both(acc, article_url, current_year) ==
    LET a == IF Contains(article_url, Str(current_year)) THEN Award(acc, "Current year", 8) ELSE acc
    IN  IF Contains(article_url, Str(current_year - 1)) THEN Award(a, "Recent year", 4) ELSE a

\* the recency bonus: the current year, else the year before it, in article_url
RecencyBonus(acc, article_url, current_year) ==
    IF Contains(article_url, Str(current_year)) THEN Award(acc, "Current year", 8)
    ELSE IF Contains(article_url, Str(current_year - 1)) THEN Award(acc, "Recent year", 4)
    ELSE acc

\* mutant: the loop without its break, every matching domain is awarded
RECURSIVE ScanSources_no_break(_, _, _)
ScanSources_no_break(domain, i, acc) ==
    IF i > Len(source_bonus) THEN acc
    ELSE ScanSources_no_break(domain, i + 1,
             IF Contains(domain, source_bonus[i][1])
             THEN Award(acc, "Source: " \o source_bonus[i][1], source_bonus[i][2])
             ELSE acc)

\* for source, bonus in source_bonus.items(): if source in domain: ...; break
RECURSIVE ScanSources(_, _, _)
ScanSources(domain, i, acc) ==
    IF i > Len(source_bonus) THEN acc
    ELSE IF Contains(domain, source_bonus[i][1])
         THEN Award(acc, "Source: " \o source_bonus[i][1], source_bonus[i][2])
         ELSE ScanSources(domain, i + 1, acc)

\* mutant: the base is added only when no other rule matched
BaseRelevance_if_empty(acc) == IF acc.score = 0 THEN Award(acc, "Base AI relevance", 5) ELSE acc

\* base_ai_score = 5; score += base_ai_score; breakdown["Base AI relevance"] = base_ai_score
BaseRelevance(acc) == Award(acc, "Base AI relevance", 5)

\* the body of calculate_relevance_score with the clock's year as a parameter:
\* either the call raises (urlparse), or it returns (score, breakdown)
ScoreAt(article_url, title, current_year) ==
    LET content_to_analyze == Lower(article_url \o " " \o title)
        s0 == [score |-> 0, breakdown |-> <<>>]
        s1 == ScanKeywords(high_value_keywords, "High-value", content_to_analyze, 1, s0)
        s2 == ScanKeywords(medium_value_keywords, "Medium-value", content_to_analyze, 1, s1)
        s3 == ScanKeywords(ai_companies, "Company", content_to_analyze, 1, s2)
        s4 == ScanKeywords(tech_terms, "Tech", content_to_analyze, 1, s3)
        s5 == RecencyBonus(s4, article_url, current_year)
    IN  IF UrlparseRaises(article_url)
        THEN [raised |-> TRUE, score |-> 0, breakdown |-> <<>>]
        ELSE LET s6 == ScanSources(Lower(Netloc(article_url)), 1, s5)
                 s7 == BaseRelevance(s6)
             IN  [raised |-> FALSE, score |-> s7.score, breakdown |-> s7.breakdown]

\* mutant: score and breakdown live across calls (module-level state), a call starts from
\* what the call before it left
calculate_relevance_score_carried(article_url, title) ==
    LET r == ScoreAt(article_url, title, year)
    IN  IF calls = <<>> \/ r.raised THEN r
        ELSE [r EXCEPT !.score = r.score + calls[Len(calls)].result.score]

\* calculate_relevance_score(article_url, title) called now: current_year = datetime.now().year
calculate_relevance_score(article_url, title) == ScoreAt(article_url, title, year)

(***************************************************************************)
(* NewsDatabase (database.py).  A table is the sequence of its rows in     *)
(* rowid order.  The columns word_count, excerpt and domain of articles,   *)
(* and the id and created_at columns of digest_posts and source_stats, are *)
(* written at insertion and never read by the program; they are left out.  *)
(* A timestamp is the day number it falls on.                              *)
(***************************************************************************)
\* hashlib.md5(url.encode()).hexdigest(): taken as collision-free, a distinct digest
\* for each distinct url
generate_url_hash(url) == "md5:" \o url

\* SELECT id FROM articles WHERE url_hash = ? : the positions of the matching rows
SelectByUrlHash(table, url_hash) == {i \in DOMAIN table : table[i].url_hash = url_hash}

\* the first element of a non-empty set of positions (cursor.fetchone())
FetchOne(positions) == CHOOSE i \in positions : \A j \in positions : i <= j

\* the row INSERT INTO articles writes
NewArticleRow(nid, article_data, now) ==
    [id              |-> nid,
     url             |-> article_data.url,
     url_hash        |-> generate_url_hash(article_data.url),
     title           |-> article_data.title,
     content         |-> article_data.content,
     summary         |-> "",
     source          |-> article_data.source,
     relevance_score |-> article_data.relevance_score,
     created_at      |-> now,
     updated_at      |-> now]

\* add_article with INSERT OR REPLACE in place of the lookup
add_article_replace(table, nid, article_data, now) ==
    [articles |-> Append(SelectSeq(table, LAMBDA r : r.url # article_data.url),
                         NewArticleRow(nid, article_data, now)),
     next_id  |-> nid + 1,
     id       |-> nid]

\* add_article(article_data) on the table with AUTOINCREMENT counter nid: the table and
\* counter after it, and the id it returns
add_article(table, nid, article_data, now) ==
    LET existing == SelectByUrlHash(table, generate_url_hash(article_data.url))
    IN  IF existing # {}
        THEN [articles |-> table, next_id |-> nid, id |-> table[FetchOne(existing)].id]
        ELSE [articles |-> Append(table, NewArticleRow(nid, article_data, now)),
              next_id  |-> nid + 1,
              id       |-> nid]

\* update_article_summary(article_id, summary)
update_article_summary(table, article_id, summary, now) ==
    [i \in DOMAIN table |->
        IF table[i].id = article_id
        THEN [table[i] EXCEPT !.summary = summary, !.updated_at = now]
        ELSE table[i]]

\* ORDER BY relevance_score DESC, created_at DESC: row a comes before row b.  Rows are
\* inserted at least a second apart, so created_at increases with the id.
OrderedBefore(a, b) ==
    \/ a.relevance_score > b.relevance_score
    \/ a.relevance_score = b.relevance_score /\ a.id > b.id

\* the rows of a set in that order
RECURSIVE OrderRows(_)
OrderRows(rows) ==
    LET Rest(v) == IF v = {} THEN <<>>
                   ELSE CHOOSE r \in {<<first>> \o OrderRows(v \ {first}) :
                                      first \in {a \in v : \A b \in v \ {a} :
                                                    OrderedBefore(a, b)}} : TRUE
    IN  CHOOSE r \in {Rest(v) : v \in {rows}} : TRUE

\* seq[:n]
Take(seq, n) == SubSeq(seq, 1, IF n < Len(seq) THEN n ELSE Len(seq))

\* the SQL NULL in a text column, told apart from every text the inputs hold
NULL == "NULL"

\* the query without its conditions on summary
get_top_articles_any_summary(table, days, limit, now) ==
    Take(OrderRows({table[i] : i \in {j \in DOMAIN table :
                                          table[j].created_at >= now - days}}),
         limit)

\* get_top_articles(days, limit)
get_top_articles(table, days, limit, now) ==
    Take(OrderRows({table[i] : i \in {j \in DOMAIN table :
                                          /\ table[j].created_at >= now - days
                                          /\ table[j].summary # NULL
                                          /\ table[j].summary # ""}}),
         limit)

\* has_digest_for_date(date)
has_digest_for_date(posts, date) == \E i \in DOMAIN posts : posts[i].date = date

\* a plain INSERT in the place of INSERT OR REPLACE, on a table without the UNIQUE date
record_digest_post_insert(posts, article_ids, telegram_message_id, date) ==
    Append(posts, [date |-> date, article_ids |-> article_ids,
                   telegram_message_id |-> telegram_message_id])

\* record_digest_post(article_ids, telegram_message_id, date): INSERT OR REPLACE on the
\* UNIQUE date
record_digest_post(posts, article_ids, telegram_message_id, date) ==
    Append(SelectSeq(posts, LAMBDA r : r.date # date),
           [date |-> date, article_ids |-> article_ids,
            telegram_message_id |-> telegram_message_id])

\* update_source_stats(source, articles_found, articles_processed, date): INSERT OR
\* REPLACE on the UNIQUE (source, date)
update_source_stats(stats, source, articles_found, articles_processed, date) ==
    Append(SelectSeq(stats, LAMBDA r : ~(r.source = source /\ r.date = date)),
           [source |-> source, date |-> date, articles_found |-> articles_found,
            articles_processed |-> articles_processed])

(***************************************************************************)
(* Discovery (multi_source_ai_digest.py): the nine extract_*_ai functions  *)
(* and fetch_all_ai_sources.  A listing page is the list extract_links     *)
(* returns for it, taken in the order set(article_links) iterates.         *)
(***************************************************************************)
\* the sources list of fetch_all_ai_sources, in its order
sources ==
    <<"TechCrunch", "Wired", "The Verge", "VentureBeat", "MIT Tech Review",
      "Ars Technica", "ZDNet", "Forbes", "Bloomberg">>

\* re.search(r'/202[4-5]/', link)
MatchesYearPath(link) == Contains(link, "/2024/") \/ Contains(link, "/2025/")

\* the article_links filter of each extractor
IsArticleLink(source, link) ==
    CASE source = "TechCrunch"      -> MatchesYearPath(link)
      [] source = "Wired"           -> Contains(link, "/story/") \/ Contains(link, "/gallery/")
      [] source = "The Verge"       -> MatchesYearPath(link)
      [] source = "VentureBeat"     -> Contains(link, "venturebeat.com") /\ Contains(link, "/ai/")
      [] source = "MIT Tech Review" -> Contains(link, "technologyreview.com") /\ Contains(link, "/202")
      [] source = "Ars Technica"    -> Contains(link, "arstechnica.com") /\ Contains(link, "/202")
      [] source = "ZDNet"           -> /\ Contains(link, "zdnet.com")
                                       /\ Contains(link, "/article/") \/ Contains(link, "/story/")
      [] source = "Forbes"          -> Contains(link, "forbes.com") /\ Contains(link, "/sites/")
      [] source = "Bloomberg"       -> Contains(link, "bloomberg.com") /\ Contains(link, "/news/")

\* the site a source's links must start with
site ==
    [TechCrunch |-> "https://techcrunch.com", Wired |-> "https://www.wired.com"] @@
    ("The Verge" :> "https://www.theverge.com") @@
    ("VentureBeat" :> "https://venturebeat.com") @@
    ("MIT Tech Review" :> "https://www.technologyreview.com") @@
    ("Ars Technica" :> "https://arstechnica.com") @@
    ("ZDNet" :> "https://www.zdnet.com") @@
    ("Forbes" :> "https://www.forbes.com") @@
    ("Bloomberg" :> "https://www.bloomberg.com")

\* the full_url an extractor makes of an article link: <<url>>, or <<>> when it skips it
FullUrl(source, link) ==
    CASE source = "TechCrunch" ->
            IF StartsWith(link, "/") THEN <<site[source] \o link>> ELSE <<link>>
      [] source \in {"Wired", "The Verge"} ->
            IF StartsWith(link, "/") THEN <<site[source] \o link>>
            ELSE IF StartsWith(link, site[source]) THEN <<link>>
            ELSE <<>>
      [] OTHER ->
            IF StartsWith(link, site[source]) THEN <<link>> ELSE <<>>

\* the articles list an extractor builds from the links of its page
RECURSIVE extract_source(_, _)
extract_source(source, links) ==
    IF links = <<>> THEN <<>>
    ELSE LET link == Head(links)
             kept == IF IsArticleLink(source, link)
                     THEN [k \in DOMAIN FullUrl(source, link) |->
                              [source |-> source, url |-> FullUrl(source, link)[k], title |-> ""]]
                     ELSE <<>>
         IN  kept \o extract_source(source, Tail(links))

(***************************************************************************)
(* ArticleExtractor.extract_article (article_extractor.py).  What the      *)
(* article's page gives is an input: "article" (a title and more than 100  *)
(* characters of text), "no_content" (a title, no text block of that       *)
(* length) or "error" (the request or the parsing raised).                 *)
(***************************************************************************)
lower_to_upper ==
    [a |-> "A", b |-> "B", c |-> "C", d |-> "D", e |-> "E", f |-> "F", g |-> "G",
     h |-> "H", i |-> "I", j |-> "J", k |-> "K", l |-> "L", m |-> "M", n |-> "N",
     o |-> "O", p |-> "P", q |-> "Q", r |-> "R", s |-> "S", t |-> "T", u |-> "U",
     v |-> "V", w |-> "W", x |-> "X", y |-> "Y", z |-> "Z"]

\* c.upper() for one character
UpperChar(c) == IF c \in DOMAIN lower_to_upper THEN lower_to_upper[c] ELSE c

\* s.rfind(k): the last position where k occurs, 0 if none
RFind(s, k) ==
    LET hits == {i \in 1 .. (Len(s) - Len(k) + 1) : SubSeq(s, i, i + Len(k) - 1) = k}
    IN  IF hits = {} THEN 0 ELSE CHOOSE i \in hits : \A j \in hits : i >= j

\* The recursive operators below bind their arguments with a quantifier (v \in {s}), so
\* that an argument is evaluated once however often the body reads it.

\* s.replace(a, b) for single characters a and b
RECURSIVE Replace(_, _, _)
Replace(s, a, b) ==
    LET Halves(v) ==
            IF Len(v) = 0 THEN ""
            ELSE IF Len(v) = 1 THEN (IF v = a THEN b ELSE v)
            ELSE Replace(SubSeq(v, 1, Len(v) \div 2), a, b) \o
                 Replace(SubSeq(v, Len(v) \div 2 + 1, Len(v)), a, b)
    IN  CHOOSE r \in {Halves(v) : v \in {s}} : TRUE

\* the characters lo .. hi of s.title(): a letter is upper-cased when no letter precedes
\* it and lower-cased otherwise
RECURSIVE TitleRange(_, _, _)
TitleRange(s, lo, hi) ==
    LET Halves(l, h) ==
            IF l > h THEN ""
            ELSE IF l = h
                 THEN IF l > 1 /\ Contains(ascii_letters, CharAt(s, l - 1))
                      THEN LowerChar(CharAt(s, l))
                      ELSE UpperChar(CharAt(s, l))
            ELSE TitleRange(s, l, (l + h) \div 2) \o TitleRange(s, (l + h) \div 2 + 1, h)
    IN  CHOOSE r \in {Halves(l, h) : l \in {lo}, h \in {hi}} : TRUE

\* s.title()
Title(s) == CHOOSE r \in {TitleRange(v, 1, Len(v)) : v \in {s}} : TRUE

\* s[:i - 1] where i is the first position of the character d in s, s when d is not in s
Before(s, d) == IF Find(s, d, 1) = 0 THEN s ELSE SubSeq(s, 1, Find(s, d, 1) - 1)

\* what follows the netloc in the url without its scheme
AfterNetloc(rest) == IF StartsWith(rest, "//") THEN From(rest, 3 + Len(SplitNetloc(rest))) ELSE rest

\* _splitparams: the path without the parameters of its last segment
WithoutParams(path) == Before(From(path, RFind(path, "/") + 1), ";")

\* urlparse(url).path of an http(s) url: what follows the netloc, without the fragment,
\* the query and the parameters of the last segment
UrlPath(url) ==
    CHOOSE path \in {SubSeq(p, 1, RFind(p, "/")) \o WithoutParams(p) :
                     p \in {Before(Before(AfterNetloc(AfterScheme(LStrip(url))), "#"), "?")}} :
        TRUE

\* path.split('/')[-1]
LastPart(path) == From(path, RFind(path, "/") + 1)

\* path.split('/')[-1] if not path.endswith('/') else path.split('/')[-2]
TitlePart(path) ==
    IF path # "" /\ CharAt(path, Len(path)) = "/"
    THEN LastPart(SubSeq(path, 1, Len(path) - 1))
    ELSE LastPart(path)

\* _fallback_title_from_url(url)
fallback_title_from_url(url) ==
    IF UrlparseRaises(url) THEN "Article"
    ELSE Title(Replace(Replace(TitlePart(UrlPath(url)), "-", " "), "_", " "))

\* the title the article pages of the model carry
PageTitle == "OpenAI launches a new ChatGPT model"

\* article text longer than the 100 characters _get_content and main.py ask for
LongContent ==
    "OpenAI has released a new model. It is faster than the previous one. " \o
    "Researchers say it also makes fewer mistakes. Pricing stays the same."

PageOutcomes == {"article", "no_content", "error"}

\* extract_article(url, source) on a page of the given outcome
extract_article(url, outcome) ==
    CASE outcome = "article"    -> [url |-> url, title |-> PageTitle, content |-> LongContent]
      [] outcome = "no_content" -> [url |-> url, title |-> PageTitle,
                                    content |-> "Content not found"]
      [] outcome = "error"      -> [url |-> url, title |-> fallback_title_from_url(url),
                                    content |-> ""]

(***************************************************************************)
(* AISummarizer.summarize_article (ai_summarizer.py).  What the chat       *)
(* completion gives is an input: a reply text, or "error" (the call or the *)
(* reading of its reply raised).  The texts of the model are separated by  *)
(* single spaces, as _get_content leaves them.                             *)
(***************************************************************************)
\* s.rstrip(" ")
RECURSIVE RStrip(_)
RStrip(s) ==
    LET Rest(v) == IF v # "" /\ CharAt(v, Len(v)) = " " THEN RStrip(SubSeq(v, 1, Len(v) - 1))
                   ELSE v
    IN  CHOOSE r \in {Rest(v) : v \in {s}} : TRUE

\* s.strip(" ")
Strip(s) == RStrip(LStrip(s))

\* the elements of a set of numbers in increasing order
RECURSIVE Ascending(_)
Ascending(set) ==
    LET Rest(v) == IF v = {} THEN <<>>
                   ELSE CHOOSE r \in {<<least>> \o Ascending(v \ {least}) :
                                      least \in {a \in v : \A b \in v : a <= b}} : TRUE
    IN  CHOOSE r \in {Rest(v) : v \in {set}} : TRUE

\* the positions where the separator sep occurs in s
Occurrences(s, sep) == {i \in 1 .. (Len(s) - Len(sep) + 1) : SubSeq(s, i, i + Len(sep) - 1) = sep}

\* '. '.join(content.split('. ')[:n])
FirstSentences(content, n) ==
    LET seps == Ascending(Occurrences(content, ". "))
    IN  IF Len(seps) < n THEN content ELSE SubSeq(content, 1, seps[n] - 1)

\* the positions where a word of s starts, and where the word starting at i ends
WordStarts(s) == {i \in 1 .. Len(s) : CharAt(s, i) # " " /\ (i = 1 \/ CharAt(s, i - 1) = " ")}

WordEnd(s, i) == IF Find(s, " ", i) = 0 THEN Len(s) ELSE Find(s, " ", i) - 1

\* ' '.join(s.split()[:n]) for 1 <= n <= len(s.split())
RECURSIVE JoinWords(_, _, _)
JoinWords(s, starts, n) ==
    LET Rest(k) == IF k = 1 THEN SubSeq(s, starts[1], WordEnd(s, starts[1]))
                   ELSE JoinWords(s, starts, k - 1) \o " " \o
                        SubSeq(s, starts[k], WordEnd(s, starts[k]))
    IN  CHOOSE r \in {Rest(k) : k \in {n}} : TRUE

\* _create_fallback_summary(content, max_length)
create_fallback_summary(content, max_length) ==
    IF Occurrences(content, ". ") = {}
    THEN IF Len(content) > 200 THEN SubSeq(content, 1, 200) \o "..." ELSE content
    ELSE LET Truncated(summary, starts) ==
                 IF Len(starts) > max_length
                 THEN JoinWords(summary, starts, max_length) \o "..."
                 ELSE summary
         IN  CHOOSE r \in {Truncated(summary, Ascending(WordStarts(summary))) :
                            summary \in {FirstSentences(content, 3) \o "."}} : TRUE

\* the replies of the chat completion in the model
LlmReplies == {" OpenAI released a new model. ", " ", "error"}

\* summarize_article(title, content, max_length) when the completion gives reply
summarize_article(title, content, max_length, reply) ==
    LET sent == IF Len(content) > 3000 THEN SubSeq(content, 1, 3000) \o "..." ELSE content
    IN  IF reply = "error"
        THEN create_fallback_summary(sent, max_length)
        ELSE Strip(reply)

(***************************************************************************)
(* The state before anything ran: a fresh database (init_database), no     *)
(* invocation in progress, nothing published.                              *)
(***************************************************************************)
\* the summarizer variable of a behaviour that does not study the summarizer
SummarizerUnused == sum_calls = <<>>

\* run_scheduler was not called
NoScheduler == [pc |-> "off", now |-> 0, next_run |-> 0, in_progress |-> {}, started |-> 0]

SchedulerUnused == scheduler = NoScheduler

NoCall == [op |-> "none", url |-> "", id |-> 0, raised |-> FALSE, before |-> <<>>]

NoDigest ==
    [date |-> 0, result |-> [success |-> FALSE, reason |-> "none", message_id |-> 0],
     before |-> <<>>, sent |-> "none"]

StoreEmpty ==
    /\ articles = <<>>
    /\ next_id = 1
    /\ digest_posts = <<>>
    /\ source_stats = <<>>
    /\ last_call = NoCall
    /\ first_id = <<>>
    /\ summary_updates = <<>>

NoRanking == [scored_articles |-> <<>>, top_n |-> 0, raised |-> FALSE]

RunIdle ==
    /\ pc = "idle"
    /\ job = "none"
    /\ src_idx = 0
    /\ all_articles = <<>>
    /\ fetch_log = <<>>
    /\ idx = 0
    /\ limit_per_source = 0
    /\ processed_by_source = <<>>
    /\ new_articles_count = 0
    /\ runs = 0
    /\ fetched = 0
    /\ top_n = 0
    /\ top_articles = <<>>
    /\ last_ranking = NoRanking

NothingPublished ==
    /\ channel = <<>>
    /\ last_digest = NoDigest

(***************************************************************************)
(* SpecScore: the scorer applied to one (article_url, title) at several    *)
(* moments of the clock.                                                   *)
(***************************************************************************)
UrlOrigins ==
    {"https://openai.com", "https://techcrunch.com", "https://www.wired.com",
     "https://wired.com.techcrunch.com", "https://WWW.TheVerge.com",
     "https://example.com/wired.com", "wired.com", "//zdnet.com",
     "https://user@www.bloomberg.com:443", "https://techcrunch.com@www.wired.com",
     "https://[::1]:8080",
     "https://[wired.com", "https://forbes.com]"}

UrlPaths ==
    {"", "/blog/chatgpt-breakthrough-2025", "/2026/01/artificial-intelligence-dataset",
     "/2025/2026/gpt-launch", "/story/robot-startup?ref=2024",
     "/ai/chatgpt-artificial-intelligence-dataset"}

Urls == {o \o p : o \in UrlOrigins, p \in UrlPaths}

Titles == {"", "OpenAI Launches GPT Model", "Intel study 2026"}

InitScore ==
    /\ year \in Years
    /\ today = 1
    /\ in_url \in Urls
    /\ in_title \in Titles
    /\ calls = <<>>
    /\ SummarizerUnused
    /\ SchedulerUnused
    /\ StoreEmpty
    /\ RunIdle
    /\ NothingPublished

\* one call calculate_relevance_score(in_url, in_title), its outcome recorded
ScoreCall ==
    /\ Len(calls) < MaxCalls
    /\ calls' = Append(calls, [url |-> in_url, title |-> in_title, at |-> year,
                               result |-> calculate_relevance_score(in_url, in_title)])
    /\ UNCHANGED <<year, today, in_url, in_title, summarizer_vars, scheduler_vars>>
    /\ UNCHANGED <<store_vars, history_vars, run_vars, publish_vars>>

\* New Year: the clock moves on
Tick ==
    /\ year + 1 \in Years
    /\ year' = year + 1
    /\ UNCHANGED <<today, scorer_vars, summarizer_vars, scheduler_vars, store_vars, history_vars, run_vars,
                   publish_vars>>

NextScore == ScoreCall \/ Tick

SpecScore == InitScore /\ [][NextScore]_vars

\* sum(breakdown.values())
RECURSIVE SumValues(_)
SumValues(d) ==
    IF DOMAIN d = {} THEN 0
    ELSE LET k == CHOOSE x \in DOMAIN d : TRUE
         IN  d[k] + SumValues([x \in (DOMAIN d) \ {k} |-> d[x]])

(***************************************************************************)
(* SpecStore: NewsDatabase called by an arbitrary client.                  *)
(***************************************************************************)
StoreUrls ==
    {"https://techcrunch.com/2025/01/28/chatgpt-openai-launch/",
     "https://www.theverge.com/2025/2/3/google-gemini-release"}

\* the article_data a client passes to add_article
ArticleInputs ==
    [url : StoreUrls, title : {"ChatGPT launch"}, content : {LongContent},
     source : {"TechCrunch", "The Verge"}, relevance_score : {54, 86}]

\* the summaries a client attaches
SummaryInputs == {"", NULL, "OpenAI released a new model."}

\* the scorer variables of a behaviour that does not study the scorer
ScorerUnused ==
    /\ in_url = ""
    /\ in_title = ""
    /\ calls = <<>>

InitStore ==
    /\ year = 2025
    /\ today = 1
    /\ ScorerUnused
    /\ SummarizerUnused
    /\ SchedulerUnused
    /\ StoreEmpty
    /\ RunIdle
    /\ NothingPublished

\* a record of a NewsDatabase call
Call(op, url, article_id, raised) ==
    [op |-> op, url |-> url, id |-> article_id, raised |-> raised, before |-> articles]

\* first_id and summary_updates after add_article(article_data) gave result
FirstIdAfterAdd(article_data, result) ==
    IF result.next_id # next_id THEN Put(first_id, article_data.url, result.id) ELSE first_id

UpdatesAfterAdd(result) ==
    IF result.next_id # next_id THEN Put(summary_updates, result.id, <<>>) ELSE summary_updates

\* summary_updates after update_article_summary(article_id, summary) ran on a table
UpdatesAfterUpdate(updates, table, article_id) ==
    IF \E i \in DOMAIN table : table[i].id = article_id
    THEN [updates EXCEPT ![article_id] = Append(@, runs)]
    ELSE updates

\* a client calls add_article(article_data); sqlite3 may raise (a locked or full
\* database), and the statement is rolled back
StoreAddArticle ==
    /\ runs < MaxStoreCalls
    /\ runs' = runs + 1
    /\ \E article_data \in ArticleInputs, raises \in BOOLEAN :
          LET result == add_article(articles, next_id, article_data, today)
          IN  IF raises
              THEN /\ last_call' = Call("add_article", article_data.url, 0, TRUE)
                   /\ UNCHANGED <<articles, next_id, first_id, summary_updates>>
              ELSE /\ articles' = result.articles
                   /\ next_id' = result.next_id
                   /\ last_call' = Call("add_article", article_data.url, result.id, FALSE)
                   /\ first_id' = FirstIdAfterAdd(article_data, result)
                   /\ summary_updates' = UpdatesAfterAdd(result)
    /\ UNCHANGED <<year, today, scorer_vars, summarizer_vars, scheduler_vars, digest_posts, source_stats, publish_vars>>
    /\ UNCHANGED <<pc, job, src_idx, all_articles, fetch_log, idx, limit_per_source,
                   processed_by_source, new_articles_count, fetched, top_n, top_articles,
                   last_ranking>>

\* a client calls update_article_summary(article_id, summary), the id stored or not
StoreUpdateSummary ==
    /\ runs < MaxStoreCalls
    /\ runs' = runs + 1
    /\ \E article_id \in 1 .. next_id, summary \in SummaryInputs :
          /\ articles' = update_article_summary(articles, article_id, summary, today)
          /\ last_call' = Call("update_article_summary", "", article_id, FALSE)
          /\ summary_updates' = UpdatesAfterUpdate(summary_updates, articles, article_id)
    /\ UNCHANGED <<year, today, scorer_vars, summarizer_vars, scheduler_vars, next_id, digest_posts, source_stats, publish_vars>>
    /\ UNCHANGED <<first_id, pc, job, src_idx, all_articles, fetch_log, idx, limit_per_source,
                   processed_by_source, new_articles_count, fetched, top_n, top_articles,
                   last_ranking>>

\* the article_ids and telegram_message_id arguments of record_digest_post
DigestInputs ==
    {[article_ids |-> <<1>>, telegram_message_id |-> 101],
     [article_ids |-> <<2, 1>>, telegram_message_id |-> 102]}

\* a client calls record_digest_post(article_ids, telegram_message_id, date)
StoreRecordDigest ==
    /\ runs < MaxStoreCalls
    /\ runs' = runs + 1
    /\ \E digest \in DigestInputs, date \in Days :
          /\ digest_posts' = record_digest_post(digest_posts, digest.article_ids,
                                                digest.telegram_message_id, date)
          /\ last_call' = [op |-> "record_digest_post", url |-> "", id |-> 0,
                           raised |-> FALSE, before |-> digest_posts,
                           article_ids |-> digest.article_ids,
                           telegram_message_id |-> digest.telegram_message_id,
                           date |-> date]
    /\ UNCHANGED <<year, today, scorer_vars, summarizer_vars, scheduler_vars, articles, next_id, source_stats, publish_vars>>
    /\ UNCHANGED <<first_id, summary_updates, pc, job, src_idx, all_articles, fetch_log, idx,
                   limit_per_source, processed_by_source, new_articles_count, fetched,
                   top_n, top_articles, last_ranking>>

\* midnight between two invocations: the clock moves on
NextDay ==
    /\ pc = "idle"
    /\ today + 1 \in Days
    /\ today' = today + 1
    /\ UNCHANGED <<year, scorer_vars, summarizer_vars, scheduler_vars, store_vars, history_vars, run_vars,
                   publish_vars>>

NextStore == StoreAddArticle \/ StoreUpdateSummary \/ StoreRecordDigest \/ NextDay

SpecStore == InitStore /\ [][NextStore]_vars

(***************************************************************************)
(* fetch_all_ai_sources, one source per step.                              *)
(***************************************************************************)
\* the links the listing pages of the model carry
Hrefs ==
    {"/2025/01/28/chatgpt-openai-launch/",
     "https://techcrunch.com/2025/01/28/chatgpt-openai-launch/",
     "https://www.theverge.com/2025/01/28/chatgpt-openai-launch/",
     "https://www.wired.com/story/robot-data/",
     "https://[techcrunch.com/2025/gpt"}

\* the listing pages: their links without repetition, in the order the extractor's
\* set(article_links) iterates
Pages ==
    UNION {{links \in [1 .. n -> Hrefs] : \A i, j \in 1 .. n : links[i] = links[j] => i = j} :
           n \in 0 .. MaxCandidates}

\* what each extractor can return: its articles list for every page, and [] when the
\* request or the decoding raised
Extracted ==
    [source \in {sources[i] : i \in DOMAIN sources} |->
        {extract_source(source, links) : links \in Pages} \cup {<<>>}]

\* the number of sources whose extraction fails in one call is at most this
MaxFailures == 1

\* what one pass of the loop can get from a source: the articles list its extractor
\* returns for a page, or a failure (the extractor's own except returns [], and the try
\* of the loop catches whatever else is raised before the extend)
Outcomes ==
    [source \in DOMAIN Extracted |->
        {[source |-> source, raised |-> FALSE, articles |-> found] :
            found \in {extract_source(source, links) : links \in Pages}}
        \cup {[source |-> source, raised |-> TRUE, articles |-> <<>>]}]

\* the sources of a log whose extraction failed
Failed(log) == {i \in DOMAIN log : log[i].raised}

\* a loop whose failure handling starts the list over
extend_or_reset(collected, outcome) ==
    IF outcome.raised THEN <<>> ELSE collected \o outcome.articles

\* the body of the loop on all_articles: all_articles.extend(articles) when the extractor
\* returned, nothing when it failed
extend(collected, outcome) ==
    IF outcome.raised THEN collected ELSE collected \o outcome.articles

\* one iteration of the loop of fetch_all_ai_sources: the next source's extractor runs on
\* the page it is served, or fails and contributes nothing
FetchSource ==
    /\ pc = "fetch"
    /\ src_idx <= Len(sources)
    /\ \E outcome \in Outcomes[sources[src_idx]] :
          /\ outcome.raised => Cardinality(Failed(fetch_log)) < MaxFailures
          /\ fetched + Len(outcome.articles) <= MaxCandidates
          /\ fetched' = fetched + Len(outcome.articles)
          /\ all_articles' = extend(all_articles, outcome)
          /\ fetch_log' = Append(fetch_log, outcome)
    /\ src_idx' = src_idx + 1
    /\ UNCHANGED <<year, today, scorer_vars, summarizer_vars, scheduler_vars, store_vars, history_vars, publish_vars>>
    /\ UNCHANGED <<pc, job, idx, limit_per_source, processed_by_source, new_articles_count,
                   runs, top_n, top_articles, last_ranking>>

\* the (source, url, title) entries discovery can yield
Candidates == UNION {{found[i] : i \in DOMAIN found} :
                     found \in UNION {Extracted[source] : source \in DOMAIN Extracted}}

\* calculate_relevance_score on every candidate in every year, tabulated
candidate_scores ==
    [entry \in Candidates |-> [current_year \in Years |->
        ScoreAt(entry.url, entry.title, current_year)]]

\* calculate_relevance_score(url, title) as the pipeline calls it on a candidate
score_candidate(entry) ==
    IF entry \in DOMAIN candidate_scores
    THEN candidate_scores[entry][year]
    ELSE calculate_relevance_score(entry.url, entry.title)

(***************************************************************************)
(* SpecDigest: create_comprehensive_ai_digest, the ranking script.         *)
(***************************************************************************)
\* a sort that is ascending by score and then reversed: entries of equal score come out
\* in the opposite of their original order
RECURSIVE SortedByScore_reversed(_, _)
SortedByScore_reversed(scored_articles, todo) ==
    LET Leads(i, v) == \A j \in v \ {i} :
                          \/ scored_articles[i].score > scored_articles[j].score
                          \/ /\ scored_articles[i].score = scored_articles[j].score
                             /\ i > j
        Rest(v) == IF v = {} THEN <<>>
                   ELSE CHOOSE r \in {<<scored_articles[first]>> \o
                                      SortedByScore_reversed(scored_articles, v \ {first}) :
                                      first \in {i \in v : Leads(i, v)}} : TRUE
    IN  CHOOSE r \in {Rest(v) : v \in {todo}} : TRUE

\* sorted(scored_articles, key=lambda x: x[3], reverse=True): descending score, entries
\* of equal score in their original order; todo is the set of positions still to place
RECURSIVE SortedByScore(_, _)
SortedByScore(scored_articles, todo) ==
    LET Leads(i, v) == \A j \in v \ {i} :
                          \/ scored_articles[i].score > scored_articles[j].score
                          \/ /\ scored_articles[i].score = scored_articles[j].score
                             /\ i < j
        Rest(v) == IF v = {} THEN <<>>
                   ELSE CHOOSE r \in {<<scored_articles[first]>> \o
                                      SortedByScore(scored_articles, v \ {first}) :
                                      first \in {i \in v : Leads(i, v)}} : TRUE
    IN  CHOOSE r \in {Rest(v) : v \in {todo}} : TRUE

\* the truncation without the sort
select_top_unsorted(scored_articles, n) == Take(scored_articles, n)

\* sorted(scored_articles, key=lambda x: x[3], reverse=True)[:top_n]
select_top(scored_articles, n) ==
    Take(SortedByScore(scored_articles, DOMAIN scored_articles), n)

\* the top_n values a caller passes
TopNInputs == {1, 15}

InitDigest ==
    /\ year = 2025
    /\ today = 1
    /\ ScorerUnused
    /\ SummarizerUnused
    /\ SchedulerUnused
    /\ StoreEmpty
    /\ RunIdle
    /\ NothingPublished

\* create_comprehensive_ai_digest(top_n) is called
StartDigest ==
    /\ pc = "idle"
    /\ runs < MaxRuns
    /\ runs' = runs + 1
    /\ pc' = "fetch"
    /\ job' = "digest_script"
    /\ src_idx' = 1
    /\ all_articles' = <<>>
    /\ fetch_log' = <<>>
    /\ top_n' \in TopNInputs
    /\ UNCHANGED <<year, today, scorer_vars, summarizer_vars, scheduler_vars, store_vars, history_vars, publish_vars>>
    /\ UNCHANGED <<idx, limit_per_source, processed_by_source, new_articles_count,
                   fetched, top_articles, last_ranking>>

\* the rest of create_comprehensive_ai_digest once all sources were fetched: every entry
\* is scored, the entries are sorted and the first top_n returned; an exception of the
\* scorer ends the call without a result
RankAndSelect ==
    /\ pc = "fetch"
    /\ job = "digest_script"
    /\ src_idx > Len(sources)
    /\ LET results == [i \in DOMAIN all_articles |-> score_candidate(all_articles[i])]
           scored_articles == [i \in DOMAIN all_articles |->
                                  [source    |-> all_articles[i].source,
                                   url       |-> all_articles[i].url,
                                   title     |-> all_articles[i].title,
                                   score     |-> results[i].score,
                                   breakdown |-> results[i].breakdown]]
       IN  IF all_articles = <<>>
           THEN /\ top_articles' = <<>>
                /\ last_ranking' = [scored_articles |-> <<>>, top_n |-> top_n,
                                    raised |-> FALSE]
           ELSE IF \E i \in DOMAIN results : results[i].raised
           THEN /\ UNCHANGED top_articles
                /\ last_ranking' = [scored_articles |-> <<>>, top_n |-> top_n,
                                    raised |-> TRUE]
           ELSE /\ top_articles' = select_top(scored_articles, top_n)
                /\ last_ranking' = [scored_articles |-> scored_articles, top_n |-> top_n,
                                    raised |-> FALSE]
    /\ pc' = "idle"
    /\ job' = "none"
    /\ src_idx' = 0
    /\ all_articles' = <<>>
    /\ fetch_log' = <<>>
    /\ top_n' = 0
    /\ UNCHANGED <<year, today, scorer_vars, summarizer_vars, scheduler_vars, store_vars, history_vars, publish_vars>>
    /\ UNCHANGED <<idx, limit_per_source, processed_by_source, new_articles_count, runs,
                   fetched>>

NextDigest == StartDigest \/ FetchSource \/ RankAndSelect

SpecDigest == InitDigest /\ [][NextDigest]_vars

(***************************************************************************)
(* SpecSelect: the scoring loop, the sort and the truncation of            *)
(* create_comprehensive_ai_digest applied to the lists a fetch can return. *)
(***************************************************************************)
MaxScored == 3

\* the entries of the fetched lists: those of discovery on which the scorer returns, and
\* one of a score between theirs
RankCandidates ==
    {entry \in Candidates : ~candidate_scores[entry][2025].raised}
    \cup {[source |-> "Wired", url |-> "https://www.wired.com/story/openai-robot/",
           title |-> ""]}

\* calculate_relevance_score on these entries in every year, tabulated
rank_scores ==
    [entry \in RankCandidates |-> [current_year \in Years |->
        ScoreAt(entry.url, entry.title, current_year)]]

\* scored_articles as the loop over all_articles builds it
ScoredArticles(fetched_articles, current_year) ==
    [i \in DOMAIN fetched_articles |->
        [source    |-> fetched_articles[i].source,
         url       |-> fetched_articles[i].url,
         title     |-> fetched_articles[i].title,
         score     |-> rank_scores[fetched_articles[i]][current_year].score,
         breakdown |-> rank_scores[fetched_articles[i]][current_year].breakdown]]

\* the lists fetch_all_ai_sources is taken to return
FetchedLists == UNION {[1 .. n -> RankCandidates] : n \in 0 .. MaxScored}

InitSelect ==
    /\ year \in Years
    /\ today = 1
    /\ ScorerUnused
    /\ SummarizerUnused
    /\ SchedulerUnused
    /\ StoreEmpty
    /\ RunIdle
    /\ NothingPublished

\* create_comprehensive_ai_digest(top_n), called once, on a fetched list
RankFetched ==
    /\ pc = "idle"
    /\ runs = 0
    /\ runs' = 1
    /\ \E fetched_articles \in FetchedLists, n \in TopNInputs :
       \E scored_articles \in {ScoredArticles(fetched_articles, year)} :
          /\ top_articles' = select_top(scored_articles, n)
          /\ last_ranking' = [scored_articles |-> scored_articles, top_n |-> n,
                              raised |-> FALSE]
    /\ UNCHANGED <<year, today, scorer_vars, summarizer_vars, scheduler_vars, store_vars, history_vars, publish_vars>>
    /\ UNCHANGED <<pc, job, src_idx, all_articles, fetch_log, idx, limit_per_source,
                   processed_by_source, new_articles_count, fetched, top_n>>

NextSelect == RankFetched

SpecSelect == InitSelect /\ [][NextSelect]_vars

(***************************************************************************)
(* Spec: DailyDigestBot (main.py), the commands collect and digest.        *)
(***************************************************************************)
\* MAX_ARTICLES_PER_DIGEST and SUMMARY_MAX_WORDS, at their defaults
max_articles == 15

summary_max_words == 100

\* extract_article on every candidate url and page outcome, tabulated
candidate_pages ==
    [url \in {entry.url : entry \in Candidates} |-> [outcome \in PageOutcomes |->
        extract_article(url, outcome)]]

\* summarize_article on the article text of the model for every reply, tabulated
content_summaries ==
    [reply \in LlmReplies |->
        summarize_article(PageTitle, LongContent, summary_max_words, reply)]

\* the limit_per_source values a caller passes
LimitInputs == {1, 10}

\* where a NewsDatabase call of one loop iteration may raise
StoreFailures == {"none", "add_article", "update_article_summary"}

Init ==
    /\ year = 2025
    /\ today = 1
    /\ ScorerUnused
    /\ SummarizerUnused
    /\ SchedulerUnused
    /\ StoreEmpty
    /\ RunIdle
    /\ NothingPublished

\* the lists fetch_all_ai_sources can return: those the steps FetchSource build over
\* the first n sources
RECURSIVE FetchResults(_)
FetchResults(n) ==
    IF n = 0 THEN {<<>>}
    ELSE {found \in {before \o of_source : before \in FetchResults(n - 1),
                                          of_source \in Extracted[sources[n]]} :
             Len(found) <= MaxCandidates}

fetch_all_ai_sources == FetchResults(Len(sources))

\* collect_and_process_articles(limit_per_source) is called and fetches the candidates:
\* with none it returns 0, otherwise the loop over them begins
StartCollect ==
    /\ pc = "idle"
    /\ runs < MaxRuns
    /\ runs' = runs + 1
    /\ \E found \in fetch_all_ai_sources, limit \in LimitInputs :
          /\ fetched + Len(found) <= MaxCandidates
          /\ fetched' = fetched + Len(found)
          /\ new_articles_count' = 0
          /\ IF found = <<>>
             THEN UNCHANGED <<pc, job, all_articles, idx, limit_per_source>>
             ELSE /\ pc' = "process"
                  /\ job' = "collect"
                  /\ all_articles' = found
                  /\ idx' = 1
                  /\ limit_per_source' = limit
    /\ UNCHANGED <<year, today, scorer_vars, summarizer_vars, scheduler_vars, store_vars, history_vars, publish_vars>>
    /\ UNCHANGED <<src_idx, fetch_log, processed_by_source, top_n, top_articles,
                   last_ranking>>

\* the candidate is passed over: nothing but the loop position changes
Continue(counted) ==
    /\ processed_by_source' = counted
    /\ UNCHANGED <<store_vars, history_vars, new_articles_count>>

\* processed_by_source once the candidate's source has its entry
Counted(source) ==
    IF source \in DOMAIN processed_by_source
    THEN processed_by_source
    ELSE Put(processed_by_source, source, 0)

\* article_data as handed to add_article
ArticleData(extracted, source, score) ==
    [url             |-> extracted.url,
     title           |-> extracted.title,
     content         |-> extracted.content,
     source          |-> source,
     relevance_score |-> score]

\* summarize_article on the extracted article
Summary(article_data, reply) ==
    IF article_data.content = LongContent
    THEN content_summaries[reply]
    ELSE summarize_article(article_data.title, article_data.content, summary_max_words, reply)

\* the calls of the store and the counters of one iteration: added is what add_article
\* gives when it returns, failure says which call raises
StoreCandidate(entry, counted, article_data, added, summary, failure) ==
    IF failure = "add_article"
    THEN /\ last_call' = Call("add_article", entry.url, 0, TRUE)
         /\ processed_by_source' = counted
         /\ UNCHANGED <<store_vars, first_id, summary_updates, new_articles_count>>
    ELSE /\ next_id' = added.next_id
         /\ first_id' = FirstIdAfterAdd(article_data, added)
         /\ UNCHANGED <<digest_posts, source_stats>>
         /\ IF Len(article_data.content) > 100 /\ failure = "update_article_summary"
            THEN /\ articles' = added.articles
                 /\ last_call' = [Call("update_article_summary", "", added.id, TRUE)
                                     EXCEPT !.before = added.articles]
                 /\ summary_updates' = UpdatesAfterAdd(added)
                 /\ processed_by_source' = counted
                 /\ UNCHANGED new_articles_count
            ELSE IF Len(article_data.content) > 100
            THEN /\ articles' = update_article_summary(added.articles, added.id, summary,
                                                       today)
                 /\ last_call' = [Call("update_article_summary", "", added.id, FALSE)
                                     EXCEPT !.before = added.articles]
                 /\ summary_updates' = UpdatesAfterUpdate(UpdatesAfterAdd(added),
                                                          added.articles, added.id)
                 /\ new_articles_count' = new_articles_count + 1
                 /\ processed_by_source' = [counted EXCEPT ![entry.source] = @ + 1]
            ELSE /\ articles' = added.articles
                 /\ last_call' = Call("add_article", entry.url, added.id, FALSE)
                 /\ summary_updates' = UpdatesAfterAdd(added)
                 /\ processed_by_source' = [counted EXCEPT ![entry.source] = @ + 1]
                 /\ UNCHANGED new_articles_count

\* a cutoff of 20 in the place of 30
below_threshold_20(score) == score < 20

\* if score < 30: continue
below_threshold(score) == score < 30

\* the body of the loop for one candidate with its score
ProcessEntry(entry, counted, scored) ==
    IF counted[entry.source] >= limit_per_source
    THEN Continue(counted)
    ELSE IF scored.raised
    THEN Continue(counted)
    ELSE IF below_threshold(scored.score)
    THEN Continue(counted)
    ELSE \E outcome \in PageOutcomes, reply \in LlmReplies, failure \in StoreFailures :
            \E article_data \in {ArticleData(candidate_pages[entry.url][outcome],
                                             entry.source, scored.score)} :
               StoreCandidate(entry, counted, article_data,
                              add_article(articles, next_id, article_data, today),
                              Summary(article_data, reply), failure)

\* a try that encloses the loop: an exception ends the batch
after_candidate_abort(position, batch, raised) ==
    IF raised THEN Len(batch) + 1 ELSE position + 1

\* where the loop goes after a candidate: the except branch logs and continues, so the
\* next candidate of the batch is taken whether or not the iteration raised
after_candidate(position, batch, raised) == position + 1

\* the iteration on the entry reaches calculate_relevance_score and it raises
ScoringRaises(entry, counted) ==
    /\ counted[entry.source] < limit_per_source
    /\ score_candidate(entry).raised

\* one iteration of the loop over all_articles
ProcessCandidate ==
    /\ pc = "process"
    /\ idx <= Len(all_articles)
    /\ idx' = after_candidate(idx, all_articles,
                              ScoringRaises(all_articles[idx],
                                            Counted(all_articles[idx].source)))
    /\ ProcessEntry(all_articles[idx], Counted(all_articles[idx].source),
                    score_candidate(all_articles[idx]))
    /\ UNCHANGED <<year, today, scorer_vars, summarizer_vars, scheduler_vars, publish_vars>>
    /\ UNCHANGED <<pc, job, src_idx, all_articles, fetch_log, limit_per_source, runs, fetched, top_n,
                   top_articles, last_ranking>>

\* update_source_stats(source, count, count) for the first n of the keys
RECURSIVE WriteStats(_, _, _, _, _)
WriteStats(stats, keys, counts, n, date) ==
    IF n = 0 THEN stats
    ELSE update_source_stats(WriteStats(stats, keys, counts, n - 1, date),
                             keys[n], counts[keys[n]], counts[keys[n]], date)

\* the end of collect_and_process_articles: the statistics of every source met are
\* written, in the order the sources were met, and the count is returned; a write that
\* raises ends the call with the later ones not made
FinishCollect ==
    /\ pc = "process"
    /\ idx > Len(all_articles)
    /\ LET keys == SelectSeq(sources, LAMBDA source : source \in DOMAIN processed_by_source)
       IN  \E written \in 0 .. Len(keys) :
              /\ source_stats' = WriteStats(source_stats, keys, processed_by_source, written,
                                            today)
              /\ last_call' = IF written < Len(keys)
                              THEN Call("update_source_stats", "", 0, TRUE)
                              ELSE Call("update_source_stats", "", 0, FALSE)
    /\ pc' = "idle"
    /\ job' = "none"
    /\ idx' = 0
    /\ all_articles' = <<>>
    /\ fetch_log' = <<>>
    /\ limit_per_source' = 0
    /\ processed_by_source' = <<>>
    /\ UNCHANGED <<year, today, scorer_vars, summarizer_vars, scheduler_vars, articles, next_id, digest_posts, publish_vars>>
    /\ UNCHANGED <<first_id, summary_updates, src_idx, new_articles_count, runs, fetched,
                   top_n, top_articles, last_ranking>>

\* what the publisher does with the message: "ok" posts it and returns success with its
\* message_id; "refused" posts nothing and returns success false; "lost_reply" posts it and
\* returns success false (the reply is lost or malformed, caught in send_digest); "raised"
\* posts nothing and raises to create_daily_digest, which the handler at main.py 176 covers
SendOutcomes == {"ok", "refused", "lost_reply", "raised"}

\* [article['id'] for article in top_articles]
Ids(rows) == [i \in DOMAIN rows |-> rows[i].id]

\* the result dict of create_daily_digest
Result(success, reason, message_id) ==
    [success |-> success, reason |-> reason, message_id |-> message_id]

\* the try block of create_daily_digest recording before it looks at result['success']
post_digest_record_first(posts, article_ids, message_id, date, sent, record_raises) ==
    [digest_posts |-> record_digest_post(posts, article_ids, message_id, date),
     result |-> IF sent = "ok" /\ ~record_raises
                THEN Result(TRUE, "", message_id)
                ELSE Result(FALSE, "telegram_error", 0)]

\* the try block of create_daily_digest after send_digest_sync: the digest_posts table and
\* the result dict it leaves
post_digest(posts, article_ids, message_id, date, sent, record_raises) ==
    IF sent = "raised"
    THEN [digest_posts |-> posts, result |-> Result(FALSE, "exception", 0)]
    ELSE IF sent # "ok"
    THEN [digest_posts |-> posts, result |-> Result(FALSE, "telegram_error", 0)]
    ELSE IF record_raises
    THEN [digest_posts |-> posts, result |-> Result(FALSE, "exception", 0)]
    ELSE [digest_posts |-> record_digest_post(posts, article_ids, message_id, date),
          result |-> Result(TRUE, "", message_id)]

\* a publisher that sends the message again when success was not reported
post_with_retry(posted, message, sent) ==
    CASE sent = "ok"         -> Append(posted, message)
      [] sent = "lost_reply" -> Append(Append(posted, message),
                                       [message EXCEPT !.message_id = @ + 1])
      [] OTHER               -> posted

\* the channel after send_digest_sync: send_digest makes its requests.post once, and the
\* message is in the channel unless the request was refused or was never made
post_once(posted, message, sent) ==
    IF sent \in {"refused", "raised"} THEN posted ELSE Append(posted, message)

\* a create_daily_digest that returns when the date has its digest
returns_when_posted(posts, date) == has_digest_for_date(posts, date)

\* whether create_daily_digest returns early for the date: has_digest_for_date is asked,
\* and a date that has its digest is logged and posted again
returns_early(posts, date) == has_digest_for_date(posts, date) /\ FALSE

\* create_daily_digest() with date today
create_daily_digest ==
    /\ pc = "idle"
    /\ runs < MaxRuns
    /\ runs' = runs + 1
    /\ \E top \in {get_top_articles(articles, 1, max_articles, today)} :
          IF returns_early(digest_posts, today)
          THEN /\ last_digest' = [date |-> today, result |-> Result(FALSE, "already_posted", 0),
                                  before |-> digest_posts, sent |-> "none"]
               /\ UNCHANGED <<channel, digest_posts>>
          ELSE IF top = <<>>
          THEN /\ last_digest' = [date |-> today, result |-> Result(FALSE, "no_articles", 0),
                                  before |-> digest_posts, sent |-> "none"]
               /\ UNCHANGED <<channel, digest_posts>>
          ELSE \E sent \in SendOutcomes, record_raises \in BOOLEAN :
               \E message_id \in {Len(channel) + 1} :
               \E done \in {post_digest(digest_posts, Ids(top), message_id, today,
                                        sent, record_raises)} :
                  /\ channel' = post_once(channel, [message_id |-> message_id,
                                                     date |-> today,
                                                     article_ids |-> Ids(top)], sent)
                  /\ digest_posts' = done.digest_posts
                  /\ last_digest' = [date |-> today, result |-> done.result,
                                     before |-> digest_posts, sent |-> sent]
    /\ UNCHANGED <<year, today, scorer_vars, summarizer_vars, scheduler_vars, articles, next_id, source_stats, history_vars>>
    /\ UNCHANGED <<pc, job, src_idx, all_articles, fetch_log, idx, limit_per_source,
                   processed_by_source, new_articles_count, fetched, top_n, top_articles,
                   last_ranking>>

Next ==
    \/ StartCollect
    \/ ProcessCandidate
    \/ FinishCollect
    \/ create_daily_digest
    \/ NextDay

Spec == Init /\ [][Next]_vars

(***************************************************************************)
(* TelegramDigestBot: the two renders of a digest and send_digest.  Every  *)
(* character of the templates outside ASCII (emoji, Cyrillic letters, the  *)
(* bullet) is written ~, one per code point, so that Len is Python's len.  *)
(***************************************************************************)
\* datetime.now().strftime('%Y-%m-%d') on the days of the model
DateText(date) == "2025-01-0" \o Str(date)

\* title as format_digest_message renders it
long_title(title) == IF Len(title) > 60 THEN SubSeq(title, 1, 57) \o "..." ELSE title

\* summary as format_digest_message renders it
long_summary(summary) ==
    IF Len(summary) > 150 THEN SubSeq(summary, 1, 147) \o "..." ELSE summary

\* title as format_short_digest renders it
short_title(title) == IF Len(title) > 45 THEN SubSeq(title, 1, 42) \o "..." ELSE title

\* enhanced_summary of format_short_digest for a summary longer than 120: p is the
\* position of the last '.' in summary[:120] counted from 1, so last_period is p - 1
CutAtSentence(summary, p) ==
    IF p - 1 > 80 THEN SubSeq(summary, 1, p) ELSE SubSeq(summary, 1, 120) \o "..."

\* enhanced_summary of format_short_digest
short_summary(summary) ==
    IF Len(summary) > 120
    THEN CutAtSentence(summary, RFind(SubSeq(summary, 1, 120), "."))
    ELSE summary

\* the lines of article i in format_digest_message
LongItem(i, article) ==
    "**" \o Str(i) \o ". " \o long_title(article.title) \o "**\n"
    \o "~ _" \o article.source \o "_ ~ ~~~~~~~: " \o Str(article.relevance_score) \o "\n"
    \o "~ " \o long_summary(article.summary) \o "\n"
    \o "~ [~~~~~~ ~~~~~~~~~](" \o article.url \o ")\n\n"

\* the lines of article i in format_short_digest
ShortItem(i, article) ==
    "**" \o Str(i) \o ". " \o short_title(article.title) \o "**\n"
    \o "~ _" \o article.source \o "_ ~ " \o short_summary(article.summary) \o "\n"
    \o "~ [~~~~~~](" \o article.url \o ")\n\n"

\* the loop of format_digest_message over the first n articles
RECURSIVE LongItems(_, _)
LongItems(shown, n) ==
    IF n = 0 THEN "" ELSE LongItems(shown, n - 1) \o LongItem(n, shown[n])

\* the loop of format_short_digest over the first n articles
RECURSIVE ShortItems(_, _)
ShortItems(shown, n) ==
    IF n = 0 THEN "" ELSE ShortItems(shown, n - 1) \o ShortItem(n, shown[n])

Footer == "@LetsTalkAI\n#AI #~~ #OpenAI #Google #ChatGPT #TechNews #~~~~~~~~~~~~~~~~~~~~~~"

\* format_digest_message(articles, date)
format_digest_message(digest_articles, date) ==
    "~ **~~~~~~~~ ~~~~~~~~ ~~ - " \o date \o "**\n"
    \o "~ _~~~~~~~ ~~~ ~~~~~: ~~~~~~~ ~~~~~~~ ~ ~~~~ ~~~~~~~~~~~~~~ ~~~~~~~~~~_\n"
    \o "~ ~~~ " \o Str(Len(digest_articles)) \o " ~~~~~~~~ ~~ "
    \o Str(Cardinality({digest_articles[i].source : i \in DOMAIN digest_articles}))
    \o " ~~~~~~~~~~\n\n"
    \o LongItems(Take(digest_articles, 10), Len(Take(digest_articles, 10)))
    \o Footer

\* format_short_digest(articles, date)
format_short_digest(digest_articles, date) ==
    "~ **~~~~~~~~ ~~ - " \o date \o "**\n"
    \o "~ _~~~~~ ~~~~~~ ~~~~~~~ ~~~~~~~~~~~~~~ ~~~~~~~~~~ ~~ ~~~~~~~_\n\n"
    \o ShortItems(Take(digest_articles, 8), Len(Take(digest_articles, 8)))
    \o Footer

\* the articles a message of the format shows: the loop of format_digest_message is over
\* articles[:10], that of format_short_digest over articles[:8]
shown_articles(digest_articles, format) ==
    Take(digest_articles, IF format = "long" THEN 10 ELSE 8)

\* the message of send_digest once the first render, made in the asked format, is known
ChooseRender(first, digest_articles, date, use_short_format) ==
    IF Len(first) > 3800
    THEN [format |-> "short", text |-> format_short_digest(digest_articles, date)]
    ELSE [format |-> IF use_short_format THEN "short" ELSE "long", text |-> first]

\* the message send_digest(articles, use_short_format, date) builds and posts
digest_message(digest_articles, use_short_format, date) ==
    ChooseRender(IF use_short_format
                 THEN format_short_digest(digest_articles, date)
                 ELSE format_digest_message(digest_articles, date),
                 digest_articles, date, use_short_format)

(***************************************************************************)
(* SpecRender: send_digest on lists of articles with titles, summaries and *)
(* urls on both sides of every cut of the two formats.                     *)
(***************************************************************************)
\* s repeated n times
RECURSIVE Repeat(_, _)
Repeat(s, n) ==
    IF n = 0 THEN ""
    ELSE IF n % 2 = 1 THEN s \o Repeat(s \o s, n \div 2)
    ELSE Repeat(s \o s, n \div 2)

\* titles of 35 and of 63 characters
RenderTitles == {PageTitle, Repeat("OpenAI ", 9)}

\* summaries: 28 characters; 130 with the last '.' of the first 120 at position 100;
\* 130 with it at position 13; 200 without any
RenderSummaries ==
    {"OpenAI released a new model.",
     Repeat("model ", 16) \o "new." \o Repeat(" fast", 6),
     "OpenAI ships." \o Repeat(" model", 19) \o " no",
     Repeat("model ", 33) \o "ok"}

\* urls of 56 and of 361 characters
RenderUrls ==
    {"https://techcrunch.com/2025/01/28/chatgpt-openai-launch/",
     "https://techcrunch.com/2025/01/28/chatgpt-openai-launch/?ref=" \o Repeat("x", 300)}

\* the rows get_top_articles can hand over, as far as the renders read them
RenderArticles ==
    [title : RenderTitles, summary : RenderSummaries, url : RenderUrls,
     source : {"TechCrunch"}, relevance_score : {86}]

\* the numbers of articles of a digest
DigestSizes == {1, 2, 10, max_articles}

InitRender ==
    /\ year = 2025
    /\ today \in Days
    /\ ScorerUnused
    /\ SummarizerUnused
    /\ SchedulerUnused
    /\ StoreEmpty
    /\ RunIdle
    /\ NothingPublished

\* send_digest(articles, use_short_format, date), called once, on n articles alike
SendDigest ==
    /\ pc = "idle"
    /\ runs = 0
    /\ runs' = 1
    /\ \E article \in RenderArticles, n \in DigestSizes, use_short_format \in BOOLEAN,
          sent \in SendOutcomes :
       \E message \in {digest_message([i \in 1 .. n |-> article], use_short_format,
                                      DateText(today))} :
          channel' = IF sent \in {"refused", "raised"}
                     THEN channel
                     ELSE Append(channel, [message_id |-> Len(channel) + 1,
                                           date |-> today,
                                           articles |-> [i \in 1 .. n |-> article],
                                           format |-> message.format,
                                           text |-> message.text])
    /\ UNCHANGED <<year, today, scorer_vars, summarizer_vars, scheduler_vars, store_vars, history_vars, last_digest>>
    /\ UNCHANGED <<pc, job, src_idx, all_articles, fetch_log, idx, limit_per_source,
                   processed_by_source, new_articles_count, fetched, top_n, top_articles,
                   last_ranking>>

NextRender == SendDigest

SpecRender == InitRender /\ [][NextRender]_vars

(***************************************************************************)
(* SpecSummarize: summarize_article on contents of one and of several      *)
(* sentences, with the completion answering or failing.                    *)
(***************************************************************************)
\* the content arguments: empty; one sentence of 4 words; one sentence of 8 words; 300
\* characters of one-letter words without a sentence end; the article text of the model;
\* three sentences of 8 words each; three sentences and a fourth that takes the text
\* beyond 3000 characters
SummarizeContents ==
    {"",
     "OpenAI released a model",
     "OpenAI has released a new model this week",
     Repeat("a ", 150),
     LongContent,
     Repeat("OpenAI has released a new model this week. ", 3),
     "OpenAI has released a new model. It is fast. It is cheap. " \o Repeat("x", 3000)}

\* the max_length arguments: the default of DailyDigestBot and smaller ones
MaxLengthInputs == {5, 20, summary_max_words}

SummarizeTitles == {"", PageTitle}

InitSummarize ==
    /\ year = 2025
    /\ today = 1
    /\ ScorerUnused
    /\ sum_calls = <<>>
    /\ SchedulerUnused
    /\ StoreEmpty
    /\ RunIdle
    /\ NothingPublished

\* summarize_article(title, content, max_length), called once
SummarizeCall ==
    /\ sum_calls = <<>>
    /\ \E title \in SummarizeTitles, content \in SummarizeContents,
          max_length \in MaxLengthInputs, reply \in LlmReplies :
          sum_calls' = <<[title |-> title, content |-> content, max_length |-> max_length,
                          reply |-> reply,
                          summary |-> summarize_article(title, content, max_length, reply)]>>
    /\ UNCHANGED <<year, today, scorer_vars, scheduler_vars, store_vars, history_vars,
                   run_vars, publish_vars>>

NextSummarize == SummarizeCall

SpecSummarize == InitSummarize /\ [][NextSummarize]_vars

(***************************************************************************)
(* Properties of the scorer, checked under SpecScore.                      *)
(***************************************************************************)
\* the recorded calls that returned a (score, breakdown)
ReturnedCalls == {i \in 1 .. Len(calls) : ~calls[i].result.raised}

\* the breakdown labels that start with prefix
LabelsWith(breakdown, prefix) == {l \in DOMAIN breakdown : StartsWith(l, prefix)}

\* C1: every (score, breakdown) the scorer returns has score = sum(breakdown.values()),
\* the entry "Base AI relevance" = 5 in the breakdown, and score >= 5.
C1_ScoreIsSumWithBase ==
    \A i \in ReturnedCalls :
        LET r == calls[i].result
        IN  /\ r.score = SumValues(r.breakdown)
            /\ "Base AI relevance" \in DOMAIN r.breakdown
            /\ r.breakdown["Base AI relevance"] = 5
            /\ r.score >= 5

\* a returned result with several entries besides the base
C1_Witness ==
    \E i \in ReturnedCalls : Cardinality(DOMAIN calls[i].result.breakdown) >= 4

C7_NeverRaises == \A i \in 1 .. Len(calls) : ~calls[i].result.raised

\* urlparse(url).hostname: the host of the netloc, without userinfo and port, lower-cased
Hostname(url) ==
    LET netloc == Netloc(url)
        at == {i \in 1 .. Len(netloc) : CharAt(netloc, i) = "@"}
        hostinfo == IF at = {} THEN netloc
                    ELSE From(netloc, 1 + CHOOSE i \in at : \A j \in at : j <= i)
        colon == Find(hostinfo, ":", 1)
    IN  Lower(IF Contains(hostinfo, "[") THEN BracketedHost(hostinfo)
              ELSE IF colon = 0 THEN hostinfo ELSE SubSeq(hostinfo, 1, colon - 1))

\* the "Source: " entries a breakdown must hold when the table domains are looked up in text:
\* the entry of the first domain of the table that occurs in it, and no other
FirstSourceOnly(breakdown, text) ==
    LET hits == {i \in 1 .. Len(source_bonus) : Contains(text, source_bonus[i][1])}
        labels == LabelsWith(breakdown, "Source: ")
    IN  /\ Cardinality(labels) <= 1
        /\ IF hits = {} THEN labels = {}
           ELSE LET first == CHOOSE i \in hits : \A j \in hits : i <= j
                    label == "Source: " \o source_bonus[first][1]
                IN  labels = {label} /\ breakdown[label] = source_bonus[first][2]

\* C8 as stated: at most one "Source: " entry, that of the first table domain that is a
\* substring of the URL's host.
C8_FirstSourceOfHost ==
    \A i \in ReturnedCalls : FirstSourceOnly(calls[i].result.breakdown, Hostname(calls[i].url))

\* C8 amended: at most one "Source: " entry, that of the first table domain that is a
\* substring of the URL's lower-cased netloc (userinfo, host and port together).
C8_FirstSourceOfNetloc ==
    \A i \in ReturnedCalls : FirstSourceOnly(calls[i].result.breakdown, Lower(Netloc(calls[i].url)))

\* a URL whose netloc holds two table domains, the later in the text being the earlier in the table
C8_Witness ==
    \E i \in ReturnedCalls :
        /\ Contains(Netloc(calls[i].url), "wired.com.techcrunch.com")
        /\ LabelsWith(calls[i].result.breakdown, "Source: ") = {"Source: techcrunch.com"}

\* C9: "Current year" (8) is in the breakdown exactly when the URL contains the current
\* year, "Recent year" (4) exactly when it contains the previous year and not the current one;
\* so never both.
C9_OneRecencyEntry ==
    \A i \in ReturnedCalls :
        LET b == calls[i].result.breakdown
            cur == Contains(calls[i].url, Str(calls[i].at))
            prev == Contains(calls[i].url, Str(calls[i].at - 1))
        IN  /\ ("Current year" \in DOMAIN b) <=> cur
            /\ ("Recent year" \in DOMAIN b) <=> (prev /\ ~cur)
            /\ ("Current year" \in DOMAIN b) => b["Current year"] = 8
            /\ ("Recent year" \in DOMAIN b) => b["Recent year"] = 4
            /\ ~({"Current year", "Recent year"} \subseteq DOMAIN b)

\* a URL with both the current and the previous year got "Current year" alone
C9_Witness ==
    \E i \in ReturnedCalls :
        /\ Contains(calls[i].url, Str(calls[i].at))
        /\ Contains(calls[i].url, Str(calls[i].at - 1))
        /\ "Current year" \in DOMAIN calls[i].result.breakdown

scenario_url == "https://openai.com/blog/chatgpt-breakthrough-2025"

\* the calls of the scenario: scenario_url with an empty title
ScenarioCalls == {i \in 1 .. Len(calls) : calls[i].url = scenario_url /\ calls[i].title = ""}

\* C10 as stated: the scenario's breakdown holds openai (20), chatgpt (20), breakthrough (15)
\* and the base (5), no "Company: openai", "Current year" (8) exactly in 2025, and the score
\* is the sum of those entries.
C10_ScenarioAsStated ==
    \A i \in ScenarioCalls :
        LET r == calls[i].result
            b == r.breakdown
        IN  /\ ~r.raised
            /\ {"High-value: openai", "High-value: chatgpt", "High-value: breakthrough",
                "Base AI relevance"} \subseteq DOMAIN b
            /\ b["High-value: openai"] = 20 /\ b["High-value: chatgpt"] = 20
            /\ b["High-value: breakthrough"] = 15 /\ b["Base AI relevance"] = 5
            /\ "Company: openai" \notin DOMAIN b
            /\ ("Current year" \in DOMAIN b) <=> (calls[i].at = 2025)
            /\ r.score = 20 + 20 + 15 + 5 + (IF calls[i].at = 2025 THEN 8 ELSE 0)

\* C10 amended: the scenario's breakdown is exactly openai (20), chatgpt (20), gpt (15),
\* breakthrough (15), the base (5), plus "Current year" (8) in 2025 or "Recent year" (4) in
\* 2026; the score is their sum: 83 in 2025, 79 in 2026, 75 in any other year.
C10_ScenarioWithGpt ==
    \A i \in ScenarioCalls :
        LET r == calls[i].result
            fixed == [x \in {"High-value: openai", "High-value: chatgpt", "High-value: gpt",
                             "High-value: breakthrough", "Base AI relevance"} |->
                         CASE x = "High-value: openai" -> 20
                           [] x = "High-value: chatgpt" -> 20
                           [] x = "High-value: gpt" -> 15
                           [] x = "High-value: breakthrough" -> 15
                           [] x = "Base AI relevance" -> 5]
            expected == IF calls[i].at = 2025 THEN Put(fixed, "Current year", 8)
                        ELSE IF calls[i].at = 2026 THEN Put(fixed, "Recent year", 4)
                        ELSE fixed
        IN  /\ ~r.raised
            /\ r.breakdown = expected
            /\ r.score = 75 + (IF calls[i].at = 2025 THEN 8 ELSE IF calls[i].at = 2026 THEN 4 ELSE 0)

\* the scenario scored in 2025 and scored again in a later year
C10_Witness ==
    /\ Len(calls) >= 2
    /\ {1, 2} \subseteq ScenarioCalls
    /\ calls[1].at = 2025
    /\ calls[2].at > 2025

(***************************************************************************)
(* Properties of the store, checked under SpecStore.                       *)
(***************************************************************************)
\* the positions of the rows of a table that hold the url
RowsOfUrl(table, url) == {i \in DOMAIN table : table[i].url = url}

\* the last call was an add_article that returned, for a url stored before it
ReAdded ==
    /\ last_call.op = "add_article"
    /\ ~last_call.raised
    /\ RowsOfUrl(last_call.before, last_call.url) # {}

\* C2: after any sequence of add_article calls the articles table holds exactly one row
\* for each URL that was added; add_article with a URL that is already stored returns the
\* id assigned at its first insertion, inserts no row and leaves every field of every
\* stored row as it was.
C2_OneRowPerUrl ==
    /\ \A url \in DOMAIN first_id : Cardinality(RowsOfUrl(articles, url)) = 1
    /\ \A i \in DOMAIN articles : articles[i].url \in DOMAIN first_id
    /\ ReAdded => /\ last_call.id = first_id[last_call.url]
                  /\ articles = last_call.before

\* a URL is added again with another source and score, after a second URL was stored and
\* after a summary was attached to the first row
C2_Witness ==
    /\ ReAdded
    /\ Len(articles) = 2
    /\ last_call.id = 1
    /\ articles[1].summary # ""
    /\ articles[1].source = "TechCrunch"
    /\ articles[1].relevance_score = 86

(***************************************************************************)
(* Properties of discovery and ranking, checked under SpecDigest.          *)
(***************************************************************************)
\* C4: within one collection pass a URL yielded more than once (by two sources, or twice
\* by one source as a relative and an absolute link) is kept once: no URL appears twice in
\* the ranked selection create_comprehensive_ai_digest returns.
C4_SelectionWithoutDuplicates ==
    \A i, j \in DOMAIN top_articles : top_articles[i].url = top_articles[j].url => i = j

(***************************************************************************)
(* Properties of the orchestrator, checked under Spec.                     *)
(***************************************************************************)
\* C3: a candidate whose URL a previous collection run stored and summarized is not
\* summarized again: the update_article_summary calls on one Article all belong to one
\* invocation of collect_and_process_articles.
C3_NoSummaryInLaterRun ==
    \A id \in DOMAIN summary_updates :
        \A i, j \in DOMAIN summary_updates[id] :
            summary_updates[id][i] = summary_updates[id][j]

\* the rows of digest_posts, the messages of the channel
Posts == {digest_posts[i] : i \in DOMAIN digest_posts}

Messages == {channel[i] : i \in DOMAIN channel}

\* C5: a digest_posts row for a date is written only after the publisher reported success
\* for that date's message: every row holds the id of a message the channel accepted for
\* its date and its articles, and a create_daily_digest that found no articles, was told
\* success false or met an exception leaves digest_posts as it was.
C5_RecordedOnlyAfterSuccess ==
    /\ \A post \in Posts :
          \E message \in Messages :
             /\ message.message_id = post.telegram_message_id
             /\ message.date = post.date
             /\ message.article_ids = post.article_ids
    /\ ~last_digest.result.success => digest_posts = last_digest.before
    /\ last_digest.result.success =>
          \E post \in Posts : /\ post.date = last_digest.date
                              /\ post.telegram_message_id = last_digest.result.message_id
    /\ Len(digest_posts) <= Cardinality({message \in Messages : TRUE})

\* create_daily_digest found a summarized article and the publisher reported a failure
\* for a message the channel had accepted: no row was written
C5_Witness ==
    /\ last_digest.result.reason = "telegram_error"
    /\ ~last_digest.result.success
    /\ Len(channel) = 1
    /\ channel[1].date = last_digest.date
    /\ digest_posts = <<>>

(***************************************************************************)
(* Properties of the top-n selection, checked under SpecSelect.            *)
(***************************************************************************)
\* the ways to find the returned entries in the scored list: position i of the result is
\* position f[i] of the list, no position used twice
Placements(result, scored) ==
    {f \in [DOMAIN result -> DOMAIN scored] :
        /\ \A i, j \in DOMAIN result : f[i] = f[j] => i = j
        /\ \A i \in DOMAIN result : result[i] = scored[f[i]]}

Min(a, b) == IF a < b THEN a ELSE b

\* C11: the selection has exactly min(n, number of candidates) entries, taken from the
\* candidates, in non-increasing score order; every candidate left out scores no more
\* than every entry returned; an empty candidate list gives an empty result, no error.
C11_TopNSelection ==
    ~last_ranking.raised =>
        /\ Len(top_articles) = Min(last_ranking.top_n, Len(last_ranking.scored_articles))
        /\ \A i, j \in DOMAIN top_articles :
              i < j => top_articles[i].score >= top_articles[j].score
        /\ \E f \in Placements(top_articles, last_ranking.scored_articles) :
              \A k \in DOMAIN last_ranking.scored_articles :
                 (\A i \in DOMAIN f : f[i] # k) =>
                    \A i \in DOMAIN top_articles :
                       last_ranking.scored_articles[k].score <= top_articles[i].score
        /\ last_ranking.scored_articles = <<>> => top_articles = <<>>

\* three candidates went in with the lowest score first, one came out: the highest
C11_Witness ==
    /\ ~last_ranking.raised
    /\ last_ranking.top_n = 1
    /\ Len(last_ranking.scored_articles) = 3
    /\ last_ranking.scored_articles[1].score < last_ranking.scored_articles[2].score
    /\ last_ranking.scored_articles[2].score < last_ranking.scored_articles[3].score
    /\ top_articles = <<last_ranking.scored_articles[3]>>

\* C12: the selection is stable: two candidates of equal score come out in the relative
\* order in which they went in.
C12_StableSelection ==
    ~last_ranking.raised =>
        \E f \in Placements(top_articles, last_ranking.scored_articles) :
           \A i, j \in DOMAIN top_articles :
              (i < j /\ top_articles[i].score = top_articles[j].score) => f[i] < f[j]

\* a lower-scored candidate first, then two different candidates A, B of one score:
\* the result is A, B, then the first
C12_Witness ==
    /\ ~last_ranking.raised
    /\ Len(last_ranking.scored_articles) = 3
    /\ last_ranking.scored_articles[1].score < last_ranking.scored_articles[2].score
    /\ last_ranking.scored_articles[2].score = last_ranking.scored_articles[3].score
    /\ last_ranking.scored_articles[2] # last_ranking.scored_articles[3]
    /\ top_articles = <<last_ranking.scored_articles[2], last_ranking.scored_articles[3],
                        last_ranking.scored_articles[1]>>

(***************************************************************************)
(* Properties of collect_and_process_articles, checked under Spec.         *)
(***************************************************************************)
\* the scorer returns a score below 30 for the entry
BelowThreshold(entry) ==
    /\ ~score_candidate(entry).raised
    /\ score_candidate(entry).score < 30

AllRowsAdmitted == \A i \in DOMAIN articles : articles[i].relevance_score >= 30

DaysInputs == {1, 7}

TopLimitInputs == {1, 15}

\* C14: whatever add_article and update_article_summary calls were made,
\* get_top_articles(days, limit) returns no Article whose summary is null or empty.
C14_TopArticlesHaveSummary ==
    \A days \in DaysInputs, limit \in TopLimitInputs :
       \A row \in {get_top_articles(articles, days, limit, today)[i] :
                   i \in DOMAIN get_top_articles(articles, days, limit, today)} :
          /\ row.summary # NULL
          /\ row.summary # ""

\* two rows, the higher-scored with its summary set to null, the other summarized: the
\* query returns the other alone
C14_Witness ==
    /\ Len(articles) = 2
    /\ last_call.op = "update_article_summary"
    /\ articles[1].summary = NULL
    /\ articles[2].summary \notin {NULL, ""}
    /\ articles[1].relevance_score > articles[2].relevance_score
    /\ get_top_articles(articles, 1, 15, today) = <<articles[2]>>

\* the rows of digest_posts of a date
PostsOfDate(posts, date) == {i \in DOMAIN posts : posts[i].date = date}

\* the rows of digest_posts of the other dates
OtherPosts(posts, date) == {posts[i] : i \in DOMAIN posts \ PostsOfDate(posts, date)}

\* C15: digest_posts holds at most one row per date; after record_digest_post the row
\* of its date carries the article ids and the message id of that call, whether or not
\* the date had a row before, and the rows of the other dates are as they were.
C15_OneDigestPostPerDate ==
    /\ \A i, j \in DOMAIN digest_posts :
          digest_posts[i].date = digest_posts[j].date => i = j
    /\ last_call.op = "record_digest_post" =>
          /\ \A i \in PostsOfDate(digest_posts, last_call.date) :
                /\ digest_posts[i].article_ids = last_call.article_ids
                /\ digest_posts[i].telegram_message_id = last_call.telegram_message_id
          /\ Cardinality(PostsOfDate(digest_posts, last_call.date)) = 1
          /\ OtherPosts(digest_posts, last_call.date) = OtherPosts(last_call.before,
                                                                   last_call.date)

\* both dates had a row, and the row of the first date was recorded again with other
\* article ids and another message id
C15_Witness ==
    /\ last_call.op = "record_digest_post"
    /\ last_call.date = 1
    /\ Len(last_call.before) = 2
    /\ Len(digest_posts) = 2
    /\ \E i \in PostsOfDate(last_call.before, 1) :
          /\ last_call.before[i].article_ids # last_call.article_ids
          /\ last_call.before[i].telegram_message_id # last_call.telegram_message_id

\* add_article or update_article_summary raised in the loop iteration just made (every
\* invocation that entered the loop ends with update_source_stats as its last call)
StoreFailedInLoop ==
    /\ pc = "process"
    /\ last_call.raised
    /\ last_call.op \in {"add_article", "update_article_summary"}

\* C16: an exception of add_article or update_article_summary while a candidate is
\* processed ends the invocation: no later candidate of the batch is processed.
C16_NoCandidateAfterStoreFailure ==
    [][StoreFailedInLoop => idx' <= idx]_vars

(***************************************************************************)
(* Properties of the renders, checked under SpecRender.                    *)
(***************************************************************************)
\* C17: the text send_digest posts to the channel never exceeds 3800 characters.
C17_PostedTextWithinCeiling ==
    \A i \in DOMAIN channel : Len(channel[i].text) <= 3800

\* C18: in a rendered digest a title is at most 60 characters in the long format and 45
\* in the short one, a summary at most 150 in the long format and 120 in the short one,
\* the ellipsis included.
C18_TitlesAndSummariesWithinCuts ==
    \A i \in DOMAIN channel :
       \A k \in DOMAIN channel[i].articles :
          IF channel[i].format = "long"
          THEN /\ Len(long_title(channel[i].articles[k].title)) <= 60
               /\ Len(long_summary(channel[i].articles[k].summary)) <= 150
          ELSE /\ Len(short_title(channel[i].articles[k].title)) <= 45
               /\ Len(short_summary(channel[i].articles[k].summary)) <= 120

(***************************************************************************)
(* Properties of the summarizer, checked under SpecSummarize.              *)
(***************************************************************************)
\* len(s.split())
WordCount(s) == Cardinality(WordStarts(s))

\* C19: when the completion fails summarize_article returns the extractive fallback, and
\* that fallback has at most max_length words.
C19_FallbackWithinMaxLength ==
    \A i \in DOMAIN sum_calls :
       sum_calls[i].reply = "error" =>
          /\ sum_calls[i].summary =
                create_fallback_summary(
                    IF Len(sum_calls[i].content) > 3000
                    THEN SubSeq(sum_calls[i].content, 1, 3000) \o "..."
                    ELSE sum_calls[i].content,
                    sum_calls[i].max_length)
          /\ WordCount(sum_calls[i].summary) <= sum_calls[i].max_length

\* the candidates the sources of a log returned, in the order of the log
RECURSIVE Returned(_)
Returned(log) ==
    IF log = <<>> THEN <<>>
    ELSE Returned(SubSeq(log, 1, Len(log) - 1)) \o log[Len(log)].articles

\* the place of a source in the sources list
SourceIndex(source) == CHOOSE i \in DOMAIN sources : sources[i] = source

\* C20: at every point of the loop of fetch_all_ai_sources, and so in the list it returns,
\* a source whose extraction failed has no candidate in the list, the list is made of the
\* candidates every other source tried so far returned, unchanged, and its entries are
\* grouped by source in the order of the sources list.
C20_FailedSourceLeavesOthers ==
    pc = "fetch" =>
       /\ Len(fetch_log) = src_idx - 1
       /\ \A i \in DOMAIN fetch_log :
             /\ fetch_log[i].source = sources[i]
             /\ fetch_log[i].raised =>
                   \A k \in DOMAIN all_articles : all_articles[k].source # sources[i]
       /\ all_articles = Returned(fetch_log)
       /\ \A k, m \in DOMAIN all_articles :
             k < m => SourceIndex(all_articles[k].source) <= SourceIndex(all_articles[m].source)

\* fetch_all_ai_sources is about to return: a source failed, and the sources before and
\* after it have their candidates in the list
C20_Witness ==
    /\ pc = "fetch"
    /\ src_idx > Len(sources)
    /\ \E i, j, k \in DOMAIN fetch_log :
          /\ i < j /\ j < k
          /\ fetch_log[j].raised
          /\ fetch_log[i].articles # <<>>
          /\ fetch_log[k].articles # <<>>
    /\ Len(all_articles) = 2

(***************************************************************************)
(* SpecScheduler: run_scheduler (main.py).  The clock counts the passes of *)
(* the loop, one per time.sleep(60); the work of an invocation is the      *)
(* commands of Spec, of which only the time it takes and the way it ends   *)
(* matter to the loop.                                                     *)
(***************************************************************************)
\* the clock stops here
MaxNow == 12

\* the sleeps of the loop in one day (1440 in the program)
TicksPerDay == 3

\* DIGEST_TIME as a pass of the day
digest_time == 1

\* the next time of day digest_time after now, as every().day.at(digest_time) sets it
NextRunAfter(now) ==
    CHOOSE at \in now + 1 .. now + TicksPerDay : at % TicksPerDay = digest_time

\* a run_pending that hands the job to a thread and returns
run_job_in_thread(s) ==
    [s EXCEPT !.pc = "sleep", !.started = @ + 1, !.in_progress = @ \cup {s.started + 1}]

\* run_pending calls the job: the loop is inside run_daily_job until it returns
run_job(s) ==
    [s EXCEPT !.pc = "job", !.started = @ + 1, !.in_progress = @ \cup {s.started + 1}]

\* run_scheduler was called at some time of the day and set the job up
InitScheduler ==
    /\ year = 2025
    /\ today = 1
    /\ ScorerUnused
    /\ SummarizerUnused
    /\ StoreEmpty
    /\ RunIdle
    /\ NothingPublished
    /\ \E now \in 0 .. TicksPerDay - 1 :
          scheduler = [pc |-> "pending", now |-> now, next_run |-> NextRunAfter(now - 1),
                       in_progress |-> {}, started |-> 0]

\* everything but the scheduler
pipeline_vars == <<year, today, scorer_vars, summarizer_vars, store_vars, history_vars,
                   run_vars, publish_vars>>

\* schedule.run_pending(): the job is called when its time has come
RunPending ==
    /\ scheduler.pc = "pending"
    /\ scheduler' = IF scheduler.now >= scheduler.next_run
                    THEN run_job(scheduler)
                    ELSE [scheduler EXCEPT !.pc = "sleep"]
    /\ UNCHANGED pipeline_vars

\* time passes while run_daily_job works
JobRuns ==
    /\ scheduler.pc = "job"
    /\ scheduler.now < MaxNow
    /\ scheduler' = [scheduler EXCEPT !.now = @ + 1]
    /\ UNCHANGED pipeline_vars

\* run_daily_job returns, its work completed or abandoned after an exception it caught;
\* the job is then scheduled for the next digest_time
JobReturns ==
    /\ scheduler.pc = "job"
    /\ scheduler' = [scheduler EXCEPT !.pc = "sleep",
                                      !.in_progress = @ \ {scheduler.started},
                                      !.next_run = NextRunAfter(scheduler.now)]
    /\ UNCHANGED pipeline_vars

\* time.sleep(60)
Sleep ==
    /\ scheduler.pc = "sleep"
    /\ scheduler.now < MaxNow
    /\ scheduler' = [scheduler EXCEPT !.pc = "pending", !.now = @ + 1]
    /\ UNCHANGED pipeline_vars

\* Ctrl+C: KeyboardInterrupt leaves run_daily_job, if it is running, and the loop
Interrupt ==
    /\ scheduler.pc \in {"job", "sleep"}
    /\ scheduler' = [scheduler EXCEPT !.pc = "stopped", !.in_progress = {}]
    /\ UNCHANGED pipeline_vars

NextScheduler == RunPending \/ JobRuns \/ JobReturns \/ Sleep \/ Interrupt

SpecScheduler == InitScheduler /\ [][NextScheduler]_vars

(***************************************************************************)
(* SpecPublish: create_daily_digest over a store that earlier collection   *)
(* runs filled with summarized articles, more of them than a message shows *)
(* and more than a digest takes.                                           *)
(***************************************************************************)
\* the url of the i-th article of the store
StoredUrl(i) == "https://techcrunch.com/2025/01/28/chatgpt-openai-launch-" \o Str(i) \o "/"

\* the row of the i-th article: a candidate of TechCrunch went through the loop of
\* collect_and_process_articles on day 1 (scored, extracted, added with id i, summarized)
StoredRow(i) ==
    update_article_summary(
        add_article(<<>>, i,
                    ArticleData(extract_article(StoredUrl(i), "article"), "TechCrunch",
                                ScoreAt(StoredUrl(i), "", 2025).score), 1).articles,
        i, Summary(extract_article(StoredUrl(i), "article"),
                   " OpenAI released a new model. "), 1)[1]

\* the store after n such candidates, one after the other
Stored(n) == [articles |-> [i \in 1 .. n |-> StoredRow(i)], next_id |-> n + 1]

\* the numbers of articles in the store
PublishSizes == {1, 8, 9, 10, 11, max_articles, max_articles + 1}

InitPublish ==
    /\ year = 2025
    /\ today = 1
    /\ ScorerUnused
    /\ SummarizerUnused
    /\ SchedulerUnused
    /\ \E n \in PublishSizes :
       \E store \in {Stored(n)} :
          /\ articles = store.articles
          /\ next_id = store.next_id
          /\ source_stats = update_source_stats(<<>>, "TechCrunch", n, n, 1)
          /\ first_id = [url \in {StoredUrl(i) : i \in 1 .. n} |->
                            CHOOSE i \in 1 .. n : StoredUrl(i) = url]
          /\ summary_updates = [id \in 1 .. n |-> <<0>>]
    /\ digest_posts = <<>>
    /\ last_call = NoCall
    /\ RunIdle
    /\ NothingPublished

NextPublish == create_daily_digest \/ NextDay

SpecPublish == InitPublish /\ [][NextPublish]_vars

(***************************************************************************)
(* C21: errors of one candidate.                                           *)
(***************************************************************************)
\* the loop is at a candidate whose iteration fails: its scoring raises
CandidateFails ==
    /\ pc = "process"
    /\ idx <= Len(all_articles)
    /\ ScoringRaises(all_articles[idx], Counted(all_articles[idx].source))

\* C21: an error raised while a candidate is processed stays in that candidate's step:
\* the loop goes on to the next candidate with the batch unchanged and the store as it
\* was, and the position never passes the end of the batch by more than one, so the
\* call reaches its return.
C21_CandidateErrorIsContained ==
    /\ [][CandidateFails => /\ pc' = "process"
                            /\ idx' = idx + 1
                            /\ all_articles' = all_articles
                            /\ UNCHANGED <<store_vars, new_articles_count>>]_vars
    /\ [](pc = "process" => idx \in 1 .. Len(all_articles) + 1)

\* the scoring of the first candidate raised and the second candidate was then stored
C21_Witness ==
    /\ pc = "process"
    /\ idx = 3
    /\ score_candidate(all_articles[1]).raised
    /\ \E i \in DOMAIN articles : articles[i].url = all_articles[2].url

(***************************************************************************)
(* C22: one send per create_daily_digest, and the reasons of a failure.    *)
(***************************************************************************)
FailureReasons == {"no_articles", "telegram_error", "exception"}

\* C22: a call of create_daily_digest puts at most one message in the channel (the
\* send is made once, with no retry), and every result that is not a success carries
\* one of the reasons no_articles, telegram_error, exception.
C22_OneSendAndKnownReasons ==
    /\ [][Len(channel') <= Len(channel) + 1]_vars
    /\ []((last_digest # NoDigest /\ ~last_digest.result.success)
             => last_digest.result.reason \in FailureReasons)

\* the channel refused today's digest: no message, the reason is telegram_error
C22_Witness ==
    /\ last_digest.date = today
    /\ ~last_digest.result.success
    /\ last_digest.result.reason = "telegram_error"
    /\ channel = <<>>
    /\ articles # <<>>

(***************************************************************************)
(* C23: invocations of run_daily_job under the scheduler loop.             *)
(***************************************************************************)
\* C23: no two invocations of run_daily_job are in progress together, and an
\* invocation starts only when none is in progress (the one before returned or was
\* left by the interrupt).
C23_NoOverlappingInvocations ==
    /\ [](Cardinality(scheduler.in_progress) <= 1)
    /\ [][scheduler'.started > scheduler.started => scheduler.in_progress = {}]_vars

\* the first invocation ran past the next digest_time, and the second one is running
C23_Witness ==
    /\ scheduler.started = 2
    /\ scheduler.in_progress = {2}
    /\ scheduler.now > scheduler.next_run

(***************************************************************************)
(* C24: stored articles stay.                                              *)
(***************************************************************************)
\* the row is the old row but for its summary and its updated_at
SameArticle(old, new) ==
    new = [old EXCEPT !.summary = new.summary, !.updated_at = new.updated_at]

\* C24: whatever the pipeline does, a run aborted by a failing store call included,
\* every row of articles stays in its place with its id, url and url_hash and all its
\* other fields; only summary and updated_at may differ afterwards.
C24_ArticlesAreKept ==
    [][\A i \in DOMAIN articles :
          /\ i \in DOMAIN articles'
          /\ SameArticle(articles[i], articles'[i])]_vars

\* the second run was aborted by update_source_stats raising; the table holds one article
C24_Witness ==
    /\ pc = "idle"
    /\ runs = 2
    /\ last_call.op = "update_source_stats"
    /\ last_call.raised
    /\ Len(articles) = 1
    /\ fetched = 2

(***************************************************************************)
(* C25: the count collect_and_process_articles returns.                    *)
(***************************************************************************)
\* the url of the entry is in the table since a day before today, so it was stored before
\* the invocation under way began
StoredBefore(entry) ==
    \E i \in DOMAIN articles : /\ articles[i].url = entry.url
                               /\ articles[i].created_at < today

\* C25: the iteration on a candidate whose url was stored before the run leaves
\* new_articles_count, the count the run returns, as it was.
C25_CountsOnlyNewArticles ==
    [][(pc = "process" /\ idx <= Len(all_articles) /\ StoredBefore(all_articles[idx]))
          => new_articles_count' = new_articles_count]_vars

(***************************************************************************)
(* C26: the limit per source.                                              *)
(***************************************************************************)
\* the entry is scored 30 or more: an iteration that is not stopped by the limit hands
\* it to extract_article and to add_article
Admitted(entry) ==
    /\ ~score_candidate(entry).raised
    /\ score_candidate(entry).score >= 30

\* the candidates before position k, of the source of the one at k, that were handed to
\* the extractor and the store in this run.  The counter of a source never decreases, so
\* while it is below the limit at k it was below the limit at each of them.
HandedOnBefore(k) ==
    {j \in 1 .. k - 1 : /\ all_articles[j].source = all_articles[k].source
                        /\ Admitted(all_articles[j])}

\* C26: the candidate the loop is about to hand to the extractor and the store is never
\* one beyond the first limit_per_source of its source.
C26_AtMostLimitPerSource ==
    (/\ pc = "process"
     /\ idx <= Len(all_articles)
     /\ Counted(all_articles[idx].source)[all_articles[idx].source] < limit_per_source
     /\ Admitted(all_articles[idx]))
       => Cardinality(HandedOnBefore(idx)) < limit_per_source

(***************************************************************************)
(* Properties of create_daily_digest over a filled store, checked under    *)
(* SpecPublish.                                                            *)
(***************************************************************************)
\* the rows of articles with the ids of the list, in its order
RowsOf(ids) ==
    [k \in DOMAIN ids |-> articles[CHOOSE i \in DOMAIN articles : articles[i].id = ids[k]]]

\* the ids of the articles the message made of the rows shows
ShownIds(rows, date) ==
    UNION {{shown[k].id : k \in DOMAIN shown} :
           shown \in {shown_articles(rows, digest_message(rows, FALSE,
                                                          DateText(date)).format)}}

\* C27: the article ids of the digest_posts row of a date are the ids of the articles
\* the message posted for that date shows.
C27_RecordedIdsAreShown ==
    \A post \in Posts :
       {post.article_ids[k] : k \in DOMAIN post.article_ids}
          = ShownIds(RowsOf(post.article_ids), post.date)

\* C28: when send_digest returned success with a message id (the channel accepted the
\* message), create_daily_digest returns success with that message id and digest_posts
\* has a row for the date.
C28_PostedDigestIsReportedPosted ==
    last_digest.sent = "ok" =>
       /\ last_digest.result.success
       /\ last_digest.result.message_id = channel[Len(channel)].message_id
       /\ \E post \in Posts : post.date = last_digest.date

\* create_daily_digest is called on a date that has its digest_posts row, with articles
\* to post
PostsAgain ==
    /\ runs' = runs + 1
    /\ has_digest_for_date(digest_posts, today)
    /\ get_top_articles(articles, 1, max_articles, today) # <<>>

Brings(breakdown, label, other) ==
    label \in DOMAIN breakdown => other \in DOMAIN breakdown

\* C30: a keyword that contains another keyword brings the other one's entry with it:
\* "High-value: chatgpt" comes with "High-value: gpt", "Medium-value:
\* artificial-intelligence" with "Company: intel", "Tech: dataset" with "Medium-value: data".
C30_OverlappingKeywordsAllCount ==
    \A i \in ReturnedCalls :
        /\ Brings(calls[i].result.breakdown, "High-value: chatgpt", "High-value: gpt")
        /\ Brings(calls[i].result.breakdown, "Medium-value: artificial-intelligence",
                  "Company: intel")
        /\ Brings(calls[i].result.breakdown, "Tech: dataset", "Medium-value: data")

\* a call on a url with chatgpt, artificial-intelligence and dataset, with no title,
\* returned
C30_Witness ==
    \E i \in ReturnedCalls :
        /\ calls[i].title = ""
        /\ {"High-value: chatgpt", "High-value: gpt",
            "Medium-value: artificial-intelligence", "Company: intel",
            "Tech: dataset", "Medium-value: data"} \subseteq DOMAIN calls[i].result.breakdown
====
